---- MODULE Spec2Model ----
(***************************************************************************)
(* Verification model of uPyRTKBase: the RTCM3 frame decoder               *)
(* (rtcm_decoder.py), the NTRIP caster client with its relay thread        *)
(* (ntrip_caster.py, main.py) and the UM980 receiver driver                *)
(* (um980_config.py, rtcm_params.py, main.py).                             *)
(***************************************************************************)
EXTENDS Integers, Sequences, FiniteSets, TLC

VARIABLES
    \* ---- RTCMDecoder (rtcm_decoder.py) ----
    buffer,        \* self.buffer: sequence of bytes
    msg_count,     \* self.msg_count
    error_count,   \* self.error_count
    debug_crc,     \* self.debug_crc
    dpc,           \* position of process(): "idle" (not running) or "loop"
    raised,        \* TRUE when the last process() call ended with an exception
    log,           \* lines printed by _decode_message / the CRC failure branch
    pending,       \* bytes the caller has not passed to process() yet
    fed,           \* every byte passed to process() so far
    \* ---- NTRIPCaster (ntrip_caster.py), shared by the two threads ----
    socket,        \* self.socket: "None", or the state of the socket object it
                   \* refers to: "open" or "closed"
    connected,     \* self.connected
    running,       \* self.running
    leaked,        \* sockets still open that self.socket no longer refers to
    \* ---- the relay thread: run_threaded and the calls it makes ----
    tpc,           \* position of the relay thread
    where,         \* the loop that called connect(): "init" or "reconn"
    response,      \* connect(): the response collected so far (characters)
    branch,        \* connect(): "pending", or the branch taken: "ok", "retry",
                   \* "fail" (classification) or "error" (except handler)
    nrecv,         \* connect(): chunks received in the response loop
    recv_raised,   \* connect(): recv() raised and the bare except left the loop
    result,        \* the value connect() returned: "True", "retry", "False";
                   \* "pending" while a call of connect() runs
    bytes_sent,    \* run_threaded's local bytes_sent
    data_len,      \* len(data) of the chunk read from data_uart
    \* ---- the main thread (main.py) ----
    mpc,           \* position of the main thread
    \* ---- receiver setup: main.py and UM980Config.full_configuration ----
    spc,           \* position of main's receiver setup
    model,         \* the model get_receiver_model returned to its caller
    config,        \* the snapshot check_config_matches returned to main
    needs_update,  \* main's needs_update
    missing,       \* check_config_matches' local missing
    uart_log,      \* the commands and queries written to the control UART
                   \* since boot
    rtcm_i,        \* configure_rtcm_messages: index of the next catalogue entry
    step_failed,   \* history: some command was answered without OK, or not at
                   \* all, since full_configuration began
    fc_result,     \* the value full_configuration returned; "pending" before
    outcome,       \* what full_configuration printed when it ended
    \* ---- UM980Config.get_agc_values ----
    apc,           \* position of get_agc_values
    attempt,       \* the loop variable attempt
    agc_values,    \* the value returned
    resp_str,      \* the answer to the last AGCA query
    queries,       \* history: AGCA queries issued
    waits,         \* history: time.sleep(0.5) calls made
    acks,          \* history: answers with '$command' and without '#AGCA'
    nones,         \* history: queries that got no answer
    \* ---- machine.WDT ----
    wdt_age,       \* milliseconds slept since the watchdog was created or last
                   \* fed (waits for the UART not counted: a lower bound)
    \* ---- RTCMDecoder._crc24q, byte by byte ----
    crc_data,      \* the bytes of data the for loop has consumed
    crc_acc,       \* the local crc after those bytes
    good_max,      \* get_agc_status: the argument good_max
    agc_status,    \* get_agc_status: what it returned
    call,          \* send_query or send_command, and its cmd
    lpc,           \* the position inside that call
    written,       \* the bytes it wrote to the control UART
    elapsed,       \* ms between start and the clock at the top of the pass
    last_data_time,  \* None, or ms between start and the last bytes read
    response_len,  \* len(response)
    resp_returned, \* what the call returned, a text given by its length
    \* ---- get_current_config and check_config_matches on UNILOGLIST ----
    kpc,           \* the position: in the loop over the lines, or after it
    listed,        \* the accepted lines of the UNILOGLIST answer
    line_i,        \* how many of them the for loop has taken
    rtcm_seen,     \* config['rtcm_messages'] so far
    missing_com2,  \* check_config_matches: missing
    \* ---- main.py: main() from STEP 1 to the periodic loop ----
    step,          \* the position of main
    nic,           \* what w5x00_init returned
    ntrip_conf,    \* the ntrip_* entries of config_manager.config
    ntrip,         \* the local ntrip: "None" or the NTRIPCaster
    thread_started,  \* start_ntrip_thread has been called
    loop_count     \* the local loop_count

decoderVars == <<buffer, msg_count, error_count, debug_crc, dpc, raised, log,
                 pending, fed>>

casterVars == <<socket, connected, running, leaked, tpc, where, response, nrecv,
                recv_raised, branch, result, bytes_sent, data_len, mpc>>

startupVars == <<spc, model, config, needs_update, missing, uart_log, rtcm_i,
                 step_failed, fc_result, outcome>>

agcVars == <<apc, attempt, agc_values, resp_str, queries, waits, acks, nones>>

um980Vars == <<startupVars, agcVars, wdt_age>>

crcVars == <<crc_data, crc_acc>>
statusVars == <<good_max, agc_status>>
linkVars == <<call, lpc, written, elapsed, last_data_time, response_len,
              resp_returned>>

listingVars == <<kpc, listed, line_i, rtcm_seen, missing_com2>>

workflowVars == <<step, nic, ntrip_conf, ntrip, thread_started, loop_count>>

lateVars == <<listingVars, workflowVars>>

moreVars == <<crcVars, statusVars, linkVars, lateVars>>

vars == <<decoderVars, casterVars, um980Vars, moreVars>>

----------------------------------------------------------------------------
(* Bounds of the exploration *)

\* Number of stream items (frames, garbage bytes) the caller feeds
MaxItems == 2

\* Number of non-empty chunks recv() delivers during one connect()
MaxChunks == 2

\* Number of abandoned open sockets the exploration follows
MaxLeaked == 1

----------------------------------------------------------------------------
(* Integer bit operations (Python int semantics on non-negative values) *)

\* The three operations on two 4-bit digits, bit by bit
RECURSIVE DigitOp(_, _, _, _)
DigitOp(op, a, b, n) ==
    IF n = 0 THEN 0
    ELSE LET x == a % 2
             y == b % 2
             bit == IF op = "and" THEN (IF x = 1 /\ y = 1 THEN 1 ELSE 0)
                    ELSE IF op = "or" THEN (IF x = 1 \/ y = 1 THEN 1 ELSE 0)
                    ELSE (x + y) % 2
         IN  bit + 2 * DigitOp(op, a \div 2, b \div 2, n - 1)

AndDigit == [a \in 0..15 |-> [b \in 0..15 |-> DigitOp("and", a, b, 4)]]
OrDigit == [a \in 0..15 |-> [b \in 0..15 |-> DigitOp("or", a, b, 4)]]
XorDigit == [a \in 0..15 |-> [b \in 0..15 |-> DigitOp("xor", a, b, 4)]]

\* a & b, a | b, a ^ b, four bits at a time
RECURSIVE BitAnd(_, _)
BitAnd(a, b) ==
    IF a = 0 \/ b = 0 THEN 0
    ELSE AndDigit[a % 16][b % 16] + 16 * BitAnd(a \div 16, b \div 16)

RECURSIVE BitOr(_, _)
BitOr(a, b) ==
    IF a = 0 THEN b
    ELSE IF b = 0 THEN a
    ELSE OrDigit[a % 16][b % 16] + 16 * BitOr(a \div 16, b \div 16)

RECURSIVE BitXor(_, _)
BitXor(a, b) ==
    IF a = 0 THEN b
    ELSE IF b = 0 THEN a
    ELSE XorDigit[a % 16][b % 16] + 16 * BitXor(a \div 16, b \div 16)

\* a << n and a >> n
Shl(a, n) == a * 2^n
Shr(a, n) == a \div 2^n

\* Python slices s[n:] and s[:n] for 0 <= n
SliceFrom(s, n) == SubSeq(s, n + 1, Len(s))
SliceTo(s, n) == SubSeq(s, 1, IF n < Len(s) THEN n ELSE Len(s))

----------------------------------------------------------------------------
(* rtcm_decoder.py *)

\* RTCM3 preamble byte 0xD3
Preamble == 211

\* CRC-24Q polynomial 0x1864CFB and the bit tested after each shift, 0x1000000
Crc24qPoly == 25578747
Crc24qTop == 16777216

\* The eight shifts without the polynomial, cut to 24 bits (a faulty division)
CrcShiftOnly(crc, n) == Shl(crc, n) % Crc24qTop

\* for _ in range(8): crc <<= 1; if crc & 0x1000000: crc ^= 0x1864CFB
RECURSIVE CrcShift(_, _)
CrcShift(crc, n) ==
    IF n = 0 THEN crc
    ELSE LET c == Shl(crc, 1)
             x == IF BitAnd(c, Crc24qTop) # 0 THEN BitXor(c, Crc24qPoly) ELSE c
         IN  IF x >= 0 THEN CrcShift(x, n - 1) ELSE 0

\* The accumulator of _crc24q after the loop over data, before the final mask
RECURSIVE CrcAcc(_, _)
CrcAcc(crc, data) ==
    IF data = <<>> THEN crc
    ELSE LET x == CrcShift(BitXor(crc, Shl(Head(data), 16)), 8)
         IN  IF x >= 0 THEN CrcAcc(x, Tail(data)) ELSE 0

\* RTCMDecoder._crc24q
Crc24q(data) == BitAnd(CrcAcc(0, data), 16777215)

\* Number of bytes the for loop of _crc24q is followed over
MaxCrcLen == 3

\* _crc24q: crc = 0, before the for loop
CrcStart == crc_data = <<>> /\ crc_acc = 0

\* _crc24q: one turn of for byte in data
CrcByte ==
    /\ Len(crc_data) < MaxCrcLen
    /\ \E byte \in {0, 1, 128, 211, 255} :
        /\ crc_acc' = CrcAcc(crc_acc, <<byte>>)
        /\ crc_data' = Append(crc_data, byte)
    /\ UNCHANGED <<statusVars, linkVars, lateVars, decoderVars, casterVars,
                   um980Vars>>

\* received_crc == calculated_crc, ignoring the last CRC byte (a faulty comparison)
VerifyCrcHigh16(frame) ==
    LET n == Len(frame)
        received_crc == BitOr(Shl(frame[n - 2], 16), Shl(frame[n - 1], 8))
        calculated_crc == Crc24q(SliceTo(frame, n - 3))
    IN  received_crc = BitAnd(calculated_crc, 16776960)

\* RTCMDecoder._verify_crc
VerifyCrc(frame) ==
    LET n == Len(frame)
        received_crc == BitOr(BitOr(Shl(frame[n - 2], 16), Shl(frame[n - 1], 8)),
                              frame[n])
        calculated_crc == Crc24q(SliceTo(frame, n - 3))
    IN  received_crc = calculated_crc

\* A length read from all 16 bits, the reserved bits included
MsgLenAllBits(buf) == BitOr(Shl(buf[2], 8), buf[3])

\* msg_len = ((self.buffer[1] & 0x03) << 8) | self.buffer[2]
MsgLen(buf) == BitOr(Shl(BitAnd(buf[2], 3), 8), buf[3])

\* frame_len = 3 + msg_len + 3
FrameLen(buf) == 3 + MsgLen(buf) + 3

\* payload = frame[3:-3]
Payload(frame) == SubSeq(frame, 4, Len(frame) - 3)

\* msg_type = (payload[0] << 4) | (payload[1] >> 4)
MsgType(payload) == BitOr(Shl(payload[1], 4), Shr(payload[2], 4))

StationTypes == {1005, 1006} \cup (1001..1004) \cup (1009..1012)
EphemerisTypes == {1019, 1020, 1042, 1044, 1045, 1046}
Msm7Types == {1077, 1087, 1097, 1107, 1117, 1127}

\* _decode_message indexes payload[0], payload[1] always and payload[2] for the
\* types it extracts a field from: an IndexError when the payload is shorter
DecodeRaises(frame) ==
    LET payload == Payload(frame)
    IN  \/ Len(payload) < 2
        \/ /\ Len(payload) < 3
           /\ MsgType(payload) \in StationTypes \cup EphemerisTypes \cup Msm7Types

\* RTCMDecoder._decode_message: the line it prints (defined when it does not raise)
DecodeMessage(frame, count) ==
    LET payload == Payload(frame)
        msg_type == MsgType(payload)
    IN  [kind |-> "msg", count |-> count, msg_type |-> msg_type,
         msg_len |-> Len(payload),
         field |-> IF msg_type \in StationTypes \cup Msm7Types THEN "station"
                   ELSE IF msg_type \in EphemerisTypes THEN "sat" ELSE "none",
         value |-> IF msg_type \in StationTypes \cup Msm7Types
                     THEN BitOr(Shl(BitAnd(payload[2], 15), 8), payload[3])
                   ELSE IF msg_type \in EphemerisTypes
                     THEN BitOr(Shl(BitAnd(payload[2], 15), 2), Shr(payload[3], 6))
                   ELSE 0]

\* RTCMDecoder._dump_failed_frame (debug_crc) or the plain error line
CrcFailureLine(frame, dbg) ==
    IF dbg
    THEN LET payload == Payload(frame)
             n == Len(frame)
         IN  [kind |-> "crc", count |-> 0,
              msg_type |-> IF Len(payload) >= 2 THEN MsgType(payload) ELSE 0,
              msg_len |-> MsgLen(frame), field |-> "crc",
              value |-> Crc24q(SliceTo(frame, n - 3))]
    ELSE [kind |-> "crc", count |-> 0, msg_type |-> 0, msg_len |-> 0,
          field |-> "none", value |-> 0]

\* self.buffer = data (a faulty extend that drops what was buffered)
ExtendReplace(buf, data) == data

\* self.buffer.extend(data)
Extend(buf, data) == buf \o data

\* The decoder object as a record
DecoderState(b, m, e, g, p, r, l) ==
    [buffer |-> b, msg_count |-> m, error_count |-> e, debug_crc |-> g,
     pc |-> p, raised |-> r, log |-> l]

\* RTCMDecoder.__init__
NewDecoder(dbg) == DecoderState(<<>>, 0, 0, dbg, "idle", FALSE, <<>>)

\* process(): self.buffer.extend(data), then enter the while loop
ProcessEnter(d, data) ==
    [d EXCEPT !.buffer = Extend(d.buffer, data), !.pc = "loop", !.raised = FALSE]

\* A test that takes any first byte for the preamble
AtPreambleAny(buf) == TRUE

\* if self.buffer[0] != 0xD3 is false: the buffer starts with the preamble
AtPreamble(buf) == buf[1] = Preamble

\* One iteration of the while loop of process()
ProcessIter(d) ==
    LET buf == d.buffer
    IN  IF Len(buf) < 3 THEN [d EXCEPT !.pc = "idle"]
        ELSE IF ~AtPreamble(buf) THEN [d EXCEPT !.buffer = SliceFrom(buf, 1)]
        ELSE IF Len(buf) < 6 THEN [d EXCEPT !.pc = "idle"]
        ELSE IF Len(buf) < FrameLen(buf) THEN [d EXCEPT !.pc = "idle"]
        ELSE LET frame_len == FrameLen(buf)
                 frame == SliceTo(buf, frame_len)
             IN  IF VerifyCrc(frame)
                 THEN IF DecodeRaises(frame)
                      THEN [d EXCEPT !.pc = "idle", !.raised = TRUE]
                      ELSE [d EXCEPT
                              !.log = Append(@, DecodeMessage(frame, d.msg_count)),
                              !.msg_count = @ + 1,
                              !.buffer = SliceFrom(buf, frame_len)]
                 ELSE [d EXCEPT
                         !.log = Append(@, CrcFailureLine(frame, d.debug_crc)),
                         !.error_count = @ + 1,
                         !.buffer = SliceFrom(buf, frame_len)]

\* The while loop of process() run until it leaves the loop
RECURSIVE ProcessLoop(_)
ProcessLoop(d) ==
    IF d.pc = "idle" THEN d
    ELSE LET n == ProcessIter(d)
         IN  IF n.pc = "idle" THEN n ELSE ProcessLoop(n)

\* RTCMDecoder.process as one call
Process(d, data) == ProcessLoop(ProcessEnter(d, data))

----------------------------------------------------------------------------
(* Byte streams the caller feeds to the decoder *)

\* A frame with the given reserved bits and payload, and its CRC-24Q appended
MkFrame(reserved, payload) ==
    LET body == <<Preamble, reserved * 4 + (Len(payload) \div 256),
                  Len(payload) % 256>> \o payload
        c == Crc24q(body)
    IN  body \o <<Shr(c, 16), Shr(c, 8) % 256, c % 256>>

\* The same frame with its last CRC byte flipped
FlipLast(frame) == [frame EXCEPT ![Len(frame)] = 255 - @]

\* Type 1005 (0x3ED), station id 0x123
Payload1005 == <<62, 209, 35>>
Frame1005 == MkFrame(0, Payload1005)

StreamItems ==
    { Frame1005,                      \* valid, type 1005, 3-byte payload
      FlipLast(Frame1005),            \* the same frame, last CRC byte flipped
      MkFrame(0, <<>>),               \* valid CRC, payload length 0
      MkFrame(0, <<62>>),             \* valid CRC, payload length 1
      MkFrame(0, <<62, 208>>),        \* valid CRC, type 1005 cut to 2 bytes
      MkFrame(63, <<0, 16, 7, 9>>),   \* valid, type 1, reserved bits set
      <<0>>,                          \* a garbage byte
      <<Preamble>> }                  \* a stray preamble byte

RECURSIVE Streams(_)
Streams(n) ==
    IF n = 0 THEN {<<>>}
    ELSE LET shorter == Streams(n - 1)
         IN  shorter \cup {s \o i : s \in shorter, i \in StreamItems}

Current == DecoderState(buffer, msg_count, error_count, debug_crc, dpc, raised, log)

SetDecoder(d) ==
    /\ buffer' = d.buffer
    /\ msg_count' = d.msg_count
    /\ error_count' = d.error_count
    /\ dpc' = d.pc
    /\ raised' = d.raised
    /\ log' = d.log
    /\ UNCHANGED debug_crc

\* RTCMDecoder.__init__, and the bytes its caller is going to feed
DecoderStart ==
    /\ debug_crc \in BOOLEAN
    /\ buffer = <<>>
    /\ msg_count = 0
    /\ error_count = 0
    /\ dpc = "idle"
    /\ raised = FALSE
    /\ log = <<>>
    /\ pending \in Streams(MaxItems)
    /\ fed = <<>>

\* The caller calls process(data) with the next k pending bytes
Feed ==
    /\ dpc = "idle"
    /\ \E k \in 0..Len(pending) :
         /\ SetDecoder(ProcessEnter(Current, SliceTo(pending, k)))
         /\ fed' = fed \o SliceTo(pending, k)
         /\ pending' = SliceFrom(pending, k)
    /\ UNCHANGED <<moreVars, casterVars, um980Vars>>

\* process() runs one iteration of its loop, or leaves it
ProcessStep ==
    /\ dpc = "loop"
    /\ SetDecoder(ProcessIter(Current))
    /\ UNCHANGED <<pending, fed>>
    /\ UNCHANGED <<moreVars, casterVars, um980Vars>>

DecoderNext == Feed \/ ProcessStep

\* Number of frames in a stream with one corrupted length field
MaxFrames == 4

\* Number of frames that follow a frame with an empty payload
MaxTail == 114

\* n copies of a frame, one after another
RECURSIVE Repeat(_, _)
Repeat(frame, n) == IF n = 0 THEN <<>> ELSE Repeat(frame, n - 1) \o frame

\* Valid frames one after another, the length field of one of them changed
\* to a shorter or a longer payload length (in the low byte, buffer[2])
ResyncStreams ==
    {Repeat(Frame1005, j - 1) \o [Frame1005 EXCEPT ![3] = n]
        \o Repeat(Frame1005, MaxFrames - j) :
            j \in 1..MaxFrames, n \in {0, 12, 21}}

\* A valid frame with an empty payload, followed by valid frames
GrowthStreams == {MkFrame(0, <<>>) \o Repeat(Frame1005, MaxTail)}

\* One frame of a given type and station id, reserved bits clear or set, with
\* a type-1005 frame behind it
TypedStreams ==
    LET types == {1001, 1004, 1005, 1006, 1009, 1012, 1077, 1127, 1019, 1, 4095}
        ids == {0, 291, 4095}
        payload(t, sid) ==
            <<t \div 16, (t % 16) * 16 + (sid \div 256), sid % 256, 170>>
    IN  {MkFrame(r, payload(t, sid)) \o Frame1005 :
           t \in types, sid \in ids, r \in {0, 63}}

\* RTCMDecoder.__init__, and a long stream its caller is going to feed
StreamStart ==
    /\ debug_crc = FALSE
    /\ buffer = <<>>
    /\ msg_count = 0
    /\ error_count = 0
    /\ dpc = "idle"
    /\ raised = FALSE
    /\ log = <<>>
    /\ pending \in ResyncStreams \cup GrowthStreams \cup TypedStreams
    /\ fed = <<>>

\* read_rtcm_data: callback(data) with the bytes data_uart.read() returned,
\* here 1, 9 or up to 512 of the pending bytes
FeedRead ==
    /\ dpc = "idle"
    /\ pending # <<>>
    /\ \E k \in {1, 9, 512} :
         /\ SetDecoder(ProcessEnter(Current, SliceTo(pending, k)))
         /\ fed' = fed \o SliceTo(pending, k)
         /\ pending' = SliceFrom(pending, k)
    /\ UNCHANGED <<moreVars, casterVars, um980Vars>>

----------------------------------------------------------------------------
(* ntrip_caster.py: response classification *)

\* Texts the caster may answer with, one character per element (ASCII, so that
\* response.decode('utf-8', 'ignore') keeps every character)
TxtIcy200 == <<"I", "C", "Y", " ", "2", "0", "0", " ", "O", "K">>
TxtHttp11 == <<"H", "T", "T", "P", "/", "1", ".", "1", " ">>
TxtHttp10 == <<"H", "T", "T", "P", "/", "1", ".", "0", " ">>
Txt200Ok == <<"2", "0", "0", " ", "O", "K">>
Txt409 == <<"4", "0", "9">>
Txt401 == <<"4", "0", "1">>
TxtEnd == <<"\r", "\n", "\r", "\n">>

\* needle in hay (Python's substring test)
Contains(needle, hay) ==
    \E i \in 0..(Len(hay) - Len(needle)) :
        SubSeq(hay, i + 1, i + Len(needle)) = needle

\* The test without its elif: a 409 falls to the failure branch (a faulty
\* classification)
ClassifyNoConflict(response_str) ==
    IF \/ Contains(TxtIcy200, response_str)
       \/ Contains(TxtHttp11 \o Txt200Ok, response_str) THEN "ok"
    ELSE "fail"

\* Every unrecognised response taken for a conflict (a faulty classification)
ClassifyRetryElse(response_str) ==
    IF \/ Contains(TxtIcy200, response_str)
       \/ Contains(TxtHttp11 \o Txt200Ok, response_str) THEN "ok"
    ELSE "retry"

\* connect(): the if / elif / else over response_str
Classify(response_str) ==
    IF \/ Contains(TxtIcy200, response_str)
       \/ Contains(TxtHttp11 \o Txt200Ok, response_str) THEN "ok"
    ELSE IF \/ Contains(TxtHttp11 \o Txt409, response_str)
            \/ Contains(TxtHttp10 \o Txt409, response_str) THEN "retry"
    ELSE "fail"

\* The chunks recv(512) may deliver
RecvChunks ==
    { TxtIcy200, TxtHttp11 \o Txt200Ok, TxtHttp10 \o Txt200Ok,
      TxtHttp11 \o Txt409, TxtHttp10 \o Txt409, TxtHttp11 \o Txt401, TxtEnd }

----------------------------------------------------------------------------
(* ntrip_caster.py: the relay thread (run_threaded, connect, send_rtcm) *)

\* rxbuf of the data UART (um980_config.py): the most read(any()) returns
RxBuf == 4096

\* bytes_sent % 100000 < len(data): the reporting period
ReportEvery == 100000

\* Lengths of the chunks data_uart.read(data_uart.any()) returns
DataLens == {RxBuf}

\* Positions of the relay thread inside connect()
ConnectPcs ==
    {"c_socket", "c_settimeout", "c_connect", "c_send", "c_recv", "c_classify",
     "c_setconn", "c_close", "c_setnone", "c_except", "c_exc_close", "c_exc_none"}

\* Sockets left open without a reference when self.socket is overwritten
LeakOnOverwrite == IF socket = "open" THEN leaked + 1 ELSE leaked

\* run_threaded calls connect()
CallConnect(loop) ==
    /\ tpc' = "c_socket"
    /\ where' = loop
    /\ response' = <<>>
    /\ nrecv' = 0
    /\ recv_raised' = FALSE
    /\ branch' = "pending"
    /\ result' = "pending"

\* connect() returns value v to run_threaded
ReturnConnect(v) ==
    /\ tpc' = "ret"
    /\ result' = v

\* An exception reaches connect()'s except handler
RaiseInConnect ==
    /\ tpc' = "c_except"
    /\ branch' = "error"

\* The initial loop of run_threaded, giving up on 'retry' as it does on False
InitLoopGiveUp(r) ==
    IF r = "True" THEN "r_running" ELSE "gave_up"

\* The initial loop of run_threaded, sleeping and retrying on False as well
InitLoopRetryAll(r) ==
    IF r = "True" THEN "r_running" ELSE "sleep60"

\* The initial loop of run_threaded: where connect()'s result leads
InitLoopNext(r) ==
    IF r = "True" THEN "r_running"
    ELSE IF r = "retry" THEN "sleep60"
    ELSE "gave_up"

\* The reconnect loop of run_threaded, leaving the loop on False
ReconnLoopLeave(r) ==
    IF r = "retry" THEN "sleep60" ELSE "sleep10"

\* The reconnect loop of run_threaded, sending the chunk again once connected
ReconnLoopResend(r) ==
    IF r = "True" THEN "s_check" ELSE "sleep60"

\* The reconnect loop of run_threaded: where connect()'s result leads
ReconnLoopNext(r) ==
    IF r = "True" THEN "sleep10" ELSE "sleep60"

\* self.socket = socket.socket(...)
ConnectSocket ==
    /\ tpc = "c_socket"
    /\ \/ /\ RaiseInConnect
          /\ UNCHANGED <<socket, leaked>>
       \/ /\ socket = "open" => leaked < MaxLeaked
          /\ leaked' = LeakOnOverwrite
          /\ socket' = "open"
          /\ tpc' = "c_settimeout"
          /\ UNCHANGED branch
    /\ UNCHANGED <<connected, running, where, response, nrecv, recv_raised,
                   result, bytes_sent, data_len, mpc>>
    /\ UNCHANGED <<moreVars, decoderVars, um980Vars>>

\* self.socket.settimeout(10)
ConnectSetTimeout ==
    /\ tpc = "c_settimeout"
    /\ IF socket = "open"
       THEN tpc' = "c_connect" /\ UNCHANGED branch
       ELSE RaiseInConnect
    /\ UNCHANGED <<socket, connected, running, leaked, where, response, nrecv,
                   recv_raised, result, bytes_sent, data_len, mpc>>
    /\ UNCHANGED <<moreVars, decoderVars, um980Vars>>

\* socket.getaddrinfo(...); self.socket.connect(addr)
ConnectTcp ==
    /\ tpc = "c_connect"
    /\ \/ RaiseInConnect
       \/ socket = "open" /\ tpc' = "c_send" /\ UNCHANGED branch
    /\ UNCHANGED <<socket, connected, running, leaked, where, response, nrecv,
                   recv_raised, result, bytes_sent, data_len, mpc>>
    /\ UNCHANGED <<moreVars, decoderVars, um980Vars>>

\* self.socket.send(request.encode())
ConnectSendRequest ==
    /\ tpc = "c_send"
    /\ \/ RaiseInConnect
       \/ socket = "open" /\ tpc' = "c_recv" /\ UNCHANGED branch
    /\ UNCHANGED <<socket, connected, running, leaked, where, response, nrecv,
                   recv_raised, result, bytes_sent, data_len, mpc>>
    /\ UNCHANGED <<moreVars, decoderVars, um980Vars>>

\* One pass of the response loop: the 5 s are over after a recv() that returned
\* (a later close of the socket by the other thread leads to the same state),
\* recv raises (bare except: break), or recv delivers a chunk and the loop ends
\* on the header terminator
ConnectRecv ==
    /\ tpc = "c_recv"
    /\ \/ /\ socket = "open"
          /\ tpc' = "c_classify"
          /\ UNCHANGED <<response, nrecv, recv_raised>>
       \/ /\ tpc' = "c_classify"
          /\ recv_raised' = TRUE
          /\ UNCHANGED <<response, nrecv>>
       \/ /\ socket = "open"
          /\ nrecv < MaxChunks
          /\ \E chunk \in RecvChunks :
               /\ response' = response \o chunk
               /\ nrecv' = nrecv + 1
               /\ tpc' = IF Contains(TxtEnd, response \o chunk)
                         THEN "c_classify" ELSE "c_recv"
          /\ UNCHANGED recv_raised
    /\ UNCHANGED <<socket, connected, running, leaked, where, branch, result,
                   bytes_sent, data_len, mpc>>
    /\ UNCHANGED <<moreVars, decoderVars, um980Vars>>

\* response_str = response.decode(...) and the test that picks the branch
ConnectClassify ==
    /\ tpc = "c_classify"
    /\ branch' = Classify(response)
    /\ tpc' = IF Classify(response) = "ok" THEN "c_setconn" ELSE "c_close"
    /\ UNCHANGED <<socket, connected, running, leaked, where, response, nrecv,
                   recv_raised, result, bytes_sent, data_len, mpc>>
    /\ UNCHANGED <<moreVars, decoderVars, um980Vars>>

\* self.connected = True; return True
ConnectSetConnected ==
    /\ tpc = "c_setconn"
    /\ connected' = TRUE
    /\ ReturnConnect("True")
    /\ UNCHANGED <<socket, running, leaked, where, response, nrecv,
                   recv_raised, branch, bytes_sent, data_len, mpc>>
    /\ UNCHANGED <<moreVars, decoderVars, um980Vars>>

\* self.socket.close() in the 409 and the failure branch (inside the try)
ConnectClose ==
    /\ tpc = "c_close"
    /\ IF socket = "None"
       THEN RaiseInConnect /\ UNCHANGED socket
       ELSE socket' = "closed" /\ tpc' = "c_setnone" /\ UNCHANGED branch
    /\ UNCHANGED <<connected, running, leaked, where, response, nrecv,
                   recv_raised, result, bytes_sent, data_len, mpc>>
    /\ UNCHANGED <<moreVars, decoderVars, um980Vars>>

\* self.socket = None; return 'retry' (409 branch) or False (failure branch)
ConnectSetNone ==
    /\ tpc = "c_setnone"
    /\ leaked' = LeakOnOverwrite
    /\ socket' = "None"
    /\ ReturnConnect(IF branch = "retry" THEN "retry" ELSE "False")
    /\ UNCHANGED <<connected, running, where, response, nrecv, recv_raised,
                   branch, bytes_sent, data_len, mpc>>
    /\ UNCHANGED <<moreVars, decoderVars, um980Vars>>

\* except Exception: if self.socket: ... else return False
ConnectExcept ==
    /\ tpc = "c_except"
    /\ IF socket = "None"
       THEN ReturnConnect("False")
       ELSE tpc' = "c_exc_close" /\ UNCHANGED result
    /\ UNCHANGED <<socket, connected, running, leaked, where, response, nrecv,
                   recv_raised, branch, bytes_sent, data_len, mpc>>
    /\ UNCHANGED <<moreVars, decoderVars, um980Vars>>

\* self.socket.close() in the except handler: with self.socket None by now the
\* AttributeError leaves connect(); the initial loop is outside run_threaded's
\* try (the thread dies), the reconnect loop is inside (except, then finally)
ConnectExceptClose ==
    /\ tpc = "c_exc_close"
    /\ IF socket = "None"
       THEN /\ tpc' = IF where = "init" THEN "crashed" ELSE "d_running"
            /\ UNCHANGED socket
       ELSE socket' = "closed" /\ tpc' = "c_exc_none"
    /\ UNCHANGED <<connected, running, leaked, where, response, nrecv,
                   recv_raised, branch, result, bytes_sent, data_len, mpc>>
    /\ UNCHANGED <<moreVars, decoderVars, um980Vars>>

\* self.socket = None; return False (except handler)
ConnectExceptSetNone ==
    /\ tpc = "c_exc_none"
    /\ leaked' = LeakOnOverwrite
    /\ socket' = "None"
    /\ ReturnConnect("False")
    /\ UNCHANGED <<connected, running, where, response, nrecv, recv_raised,
                   branch, bytes_sent, data_len, mpc>>
    /\ UNCHANGED <<moreVars, decoderVars, um980Vars>>

\* run_threaded acts on result = self.connect(); connect()'s locals are gone
AfterConnect ==
    /\ tpc = "ret"
    /\ tpc' = IF where = "init" THEN InitLoopNext(result) ELSE ReconnLoopNext(result)
    /\ response' = <<>>
    /\ nrecv' = 0
    /\ recv_raised' = FALSE
    /\ branch' = "pending"
    /\ UNCHANGED <<socket, connected, running, leaked, where, result,
                   bytes_sent, data_len, mpc>>
    /\ UNCHANGED <<moreVars, decoderVars, um980Vars>>

\* time.sleep(60), then the loop calls connect() again
Sleep60 ==
    /\ tpc = "sleep60"
    /\ CallConnect(where)
    /\ UNCHANGED <<socket, connected, running, leaked, bytes_sent, data_len,
                   mpc>>
    /\ UNCHANGED <<moreVars, decoderVars, um980Vars>>

\* self.running = True; bytes_sent = 0
SetRunning ==
    /\ tpc = "r_running"
    /\ running' = TRUE
    /\ bytes_sent' = 0
    /\ tpc' = "loop"
    /\ UNCHANGED <<socket, connected, leaked, where, response, nrecv,
                   recv_raised, branch, result, data_len, mpc>>
    /\ UNCHANGED <<moreVars, decoderVars, um980Vars>>

\* while self.running: ... ; finally: self.disconnect()
LoopTest ==
    /\ tpc = "loop"
    /\ tpc' = IF running THEN "uart" ELSE "d_running"
    /\ UNCHANGED <<socket, connected, running, leaked, where, response, nrecv,
                   recv_raised, branch, result, bytes_sent, data_len, mpc>>
    /\ UNCHANGED <<moreVars, decoderVars, um980Vars>>

\* if data_uart.any(): data = data_uart.read(data_uart.any()); if data: ...
UartPoll ==
    /\ tpc = "uart"
    /\ \/ tpc' = "sleep10" /\ UNCHANGED data_len
       \/ \E n \in DataLens : data_len' = n /\ tpc' = "s_check"
    /\ UNCHANGED <<socket, connected, running, leaked, where, response, nrecv,
                   recv_raised, branch, result, bytes_sent, mpc>>
    /\ UNCHANGED <<moreVars, decoderVars, um980Vars>>

\* send_rtcm's test with the socket left out (a faulty test)
SendRefusedUnconnected(c, s) == ~c

\* send_rtcm: not self.connected or not self.socket
SendRefused(c, s) == ~c \/ s = "None"

\* send_rtcm: if not self.connected or not self.socket: return False
SendCheck ==
    /\ tpc = "s_check"
    /\ IF SendRefused(connected, socket)
       THEN CallConnect("reconn")
       ELSE /\ tpc' = "s_send"
            /\ UNCHANGED <<where, response, nrecv, recv_raised, branch,
                           result>>
    /\ UNCHANGED <<socket, connected, running, leaked, bytes_sent, data_len,
                   mpc>>
    /\ UNCHANGED <<moreVars, decoderVars, um980Vars>>

\* send_rtcm: self.socket.send(data); return True, or the except branch:
\* self.connected = False; return False (run_threaded then reconnects)
SendWrite ==
    /\ tpc = "s_send"
    /\ \/ /\ socket = "open"
          /\ tpc' = "count"
          /\ UNCHANGED <<connected, where, response, nrecv, recv_raised,
                         branch, result>>
       \/ /\ connected' = FALSE
          /\ CallConnect("reconn")
    /\ UNCHANGED <<socket, running, leaked, bytes_sent, data_len, mpc>>
    /\ UNCHANGED <<moreVars, decoderVars, um980Vars>>

\* bytes_sent += len(data); if bytes_sent % 100000 < len(data): bytes_sent = 0
CountBytes ==
    /\ tpc = "count"
    /\ bytes_sent' = IF (bytes_sent + data_len) % ReportEvery < data_len
                     THEN 0 ELSE bytes_sent + data_len
    /\ tpc' = "sleep10"
    /\ UNCHANGED <<socket, connected, running, leaked, where, response, nrecv,
                   recv_raised, branch, result, data_len, mpc>>
    /\ UNCHANGED <<moreVars, decoderVars, um980Vars>>

\* time.sleep(0.01) at the end of a pass of the relay loop
Sleep10 ==
    /\ tpc = "sleep10"
    /\ tpc' = "loop"
    /\ UNCHANGED <<socket, connected, running, leaked, where, response, nrecv,
                   recv_raised, branch, result, bytes_sent, data_len, mpc>>
    /\ UNCHANGED <<moreVars, decoderVars, um980Vars>>

----------------------------------------------------------------------------
(* ntrip_caster.py: disconnect(), called by either thread *)

\* The fields of the client that disconnect() works on, as a record
Client == [socket |-> socket, connected |-> connected, running |-> running]

\* The position of disconnect() after the statement at pc, run on client c
DisconnectGoto(pc, c, done) ==
    IF pc = "d_running" THEN "d_connected"
    ELSE IF pc = "d_connected" THEN "d_test"
    ELSE IF pc = "d_test" THEN (IF c.socket = "None" THEN done ELSE "d_close")
    ELSE IF pc = "d_close" THEN "d_setnone"
    ELSE done

\* disconnect() that leaves self.socket as it is after close() (a faulty
\* disconnect)
DisconnectStmtKeepSocket(pc, c) ==
    IF pc = "d_running" THEN [c EXCEPT !.running = FALSE]
    ELSE IF pc = "d_connected" THEN [c EXCEPT !.connected = FALSE]
    ELSE IF pc = "d_close" /\ c.socket # "None" THEN [c EXCEPT !.socket = "closed"]
    ELSE c

\* The client after the statement of disconnect() at pc: self.running = False;
\* self.connected = False; if self.socket: try: self.socket.close() except:
\* pass; self.socket = None
DisconnectStmt(pc, c) ==
    IF pc = "d_running" THEN [c EXCEPT !.running = FALSE]
    ELSE IF pc = "d_connected" THEN [c EXCEPT !.connected = FALSE]
    ELSE IF pc = "d_close" /\ c.socket # "None" THEN [c EXCEPT !.socket = "closed"]
    ELSE IF pc = "d_setnone" THEN [c EXCEPT !.socket = "None"]
    ELSE c

\* disconnect() run from its first statement to its end on client c, no other
\* context taking a step meanwhile
RECURSIVE DisconnectFrom(_, _)
DisconnectFrom(pc, c) ==
    IF pc = "done" THEN c
    ELSE DisconnectFrom(DisconnectGoto(pc, c, "done"), DisconnectStmt(pc, c))

DisconnectRun(c) == DisconnectFrom("d_running", c)

\* The next position of disconnect() after each of its statements
DisconnectPc(pc, done) == DisconnectGoto(pc, Client, done)

\* One statement of disconnect() executed by the thread at position pc
DisconnectStep(pc) ==
    /\ running' = DisconnectStmt(pc, Client).running
    /\ connected' = DisconnectStmt(pc, Client).connected
    /\ socket' = DisconnectStmt(pc, Client).socket
    /\ leaked' = IF pc = "d_setnone" THEN LeakOnOverwrite ELSE leaked

DisconnectPcs == {"d_running", "d_connected", "d_test", "d_close", "d_setnone"}

\* finally: self.disconnect() in run_threaded, then the thread returns
ThreadDisconnect ==
    /\ tpc \in DisconnectPcs
    /\ DisconnectStep(tpc)
    /\ tpc' = DisconnectPc(tpc, "returned")
    /\ UNCHANGED <<where, response, nrecv, recv_raised, branch, result,
                   bytes_sent, data_len, mpc>>
    /\ UNCHANGED <<moreVars, decoderVars, um980Vars>>

----------------------------------------------------------------------------
(* main.py: the main thread once the relay thread is started *)

\* KeyboardInterrupt in the periodic loop: the handler calls ntrip.disconnect()
MainInterrupt ==
    /\ mpc = "periodic"
    /\ mpc' = "d_running"
    /\ UNCHANGED <<socket, connected, running, leaked, tpc, where, response,
                   nrecv, recv_raised, branch, result, bytes_sent, data_len>>
    /\ UNCHANGED <<moreVars, decoderVars, um980Vars>>

\* ntrip.disconnect() in main's KeyboardInterrupt handler
MainDisconnect ==
    /\ mpc \in DisconnectPcs
    /\ DisconnectStep(mpc)
    /\ mpc' = DisconnectPc(mpc, "goodbye")
    /\ UNCHANGED <<tpc, where, response, nrecv, recv_raised, branch, result,
                   bytes_sent, data_len>>
    /\ UNCHANGED <<moreVars, decoderVars, um980Vars>>

----------------------------------------------------------------------------
(* The two serial channels to the receiver *)

\* main.py: UM980Config(uart_id=0, ..., data_uart_id=1, ...)
ControlUartId == 0
DataUartId == 1

\* A relay thread handed the control UART (a faulty start of the thread)
RelayUartControl == ControlUartId

\* start_ntrip_thread(ntrip, um980.data_uart): the UART run_threaded polls
RelayUart == DataUartId

\* The UARTs the relay thread accesses at its position: data_uart.any() and
\* data_uart.read() in the relay loop, no UART anywhere else
ThreadUarts == IF tpc = "uart" THEN {RelayUart} ELSE {}

\* The UARTs the main thread accesses at its position: the periodic loop calls
\* um980.get_agc_status(), whose send_query uses self.uart; its
\* KeyboardInterrupt handler uses none
MainUarts == IF mpc = "periodic" THEN {ControlUartId} ELSE {}

----------------------------------------------------------------------------
(* Text: Python str values as sequences of one-character strings *)

\* Python's None and a value that is not None
None == <<>>
Some(x) == <<x>>

\* str.upper()
Upper(s) ==
    LET lower == <<"a", "b", "c", "d", "e", "f", "g", "h", "i", "j", "k", "l",
                   "m", "n", "o", "p", "q", "r", "s", "t", "u", "v", "w", "x",
                   "y", "z">>
        upper == <<"A", "B", "C", "D", "E", "F", "G", "H", "I", "J", "K", "L",
                   "M", "N", "O", "P", "Q", "R", "S", "T", "U", "V", "W", "X",
                   "Y", "Z">>
        UpperChar(c) ==
            IF \E i \in 1..26 : lower[i] = c
            THEN upper[CHOOSE i \in 1..26 : lower[i] = c]
            ELSE c
    IN  [i \in 1..Len(s) |-> UpperChar(s[i])]

DecimalDigits == <<"0", "1", "2", "3", "4", "5", "6", "7", "8", "9">>

\* str(n) of an f-string field, for n >= 0
RECURSIVE Str(_)
Str(n) ==
    IF n < 10 THEN <<DecimalDigits[n + 1]>>
    ELSE Str(n \div 10) \o <<DecimalDigits[(n % 10) + 1]>>

----------------------------------------------------------------------------
(* rtcm_params.py and the commands of um980_config.py *)

\* RTCM_MESSAGES: (message identifier, interval in seconds), in catalogue order
RTCM_MESSAGES ==
    <<<<<<"R", "T", "C", "M", "1", "0", "0", "5">>, 30>>,
      <<<<"R", "T", "C", "M", "1", "0", "0", "6">>, 30>>,
      <<<<"R", "T", "C", "M", "1", "0", "3", "3">>, 10>>,
      <<<<"R", "T", "C", "M", "1", "0", "1", "9">>, 10>>,
      <<<<"R", "T", "C", "M", "1", "0", "2", "0">>, 10>>,
      <<<<"R", "T", "C", "M", "1", "0", "4", "2">>, 10>>,
      <<<<"R", "T", "C", "M", "1", "0", "4", "4">>, 10>>,
      <<<<"R", "T", "C", "M", "1", "0", "4", "5">>, 10>>,
      <<<<"R", "T", "C", "M", "1", "0", "4", "6">>, 10>>,
      <<<<"R", "T", "C", "M", "1", "0", "7", "7">>, 1>>,
      <<<<"R", "T", "C", "M", "1", "0", "8", "7">>, 1>>,
      <<<<"R", "T", "C", "M", "1", "0", "9", "7">>, 1>>,
      <<<<"R", "T", "C", "M", "1", "1", "0", "7">>, 1>>,
      <<<<"R", "T", "C", "M", "1", "1", "1", "7">>, 1>>,
      <<<<"R", "T", "C", "M", "1", "1", "2", "7">>, 1>>>>

\* The names of the receiver's ports: COM1 is the control channel, COM2 the
\* data channel
TxtCom1 == <<"C", "O", "M", "1">>
TxtCom2 == <<"C", "O", "M", "2">>

\* configure_base_station: 'CONFIG SIGNALGROUP 2'
CmdSignalGroup ==
    <<"C", "O", "N", "F", "I", "G", " ", "S", "I", "G", "N", "A", "L", "G",
      "R", "O", "U", "P", " ", "2">>

\* configure_base_station: 'CONFIG SBAS ENABLE AUTO'
CmdSbas ==
    <<"C", "O", "N", "F", "I", "G", " ", "S", "B", "A", "S", " ", "E", "N",
      "A", "B", "L", "E", " ", "A", "U", "T", "O">>

\* The base-mode command built without mode.upper() (a faulty command)
CmdBaseModeAsGiven(mode, duration, pdop) ==
    <<"M", "O", "D", "E", " ", "B", "A", "S", "E", " ", "1", " ">>
        \o mode \o <<" ">> \o Str(duration) \o <<" ">> \o Str(pdop)

\* configure_base_station: f'MODE BASE 1 {mode.upper()} {duration} {pdop}'
CmdBaseMode(mode, duration, pdop) ==
    <<"M", "O", "D", "E", " ", "B", "A", "S", "E", " ", "1", " ">>
        \o Upper(mode) \o <<" ">> \o Str(duration) \o <<" ">> \o Str(pdop)

\* configure_rtcm_messages: f'{msg_type} {com_port} {interval}'
CmdRtcm(msg_type, com_port, interval) ==
    msg_type \o <<" ">> \o com_port \o <<" ">> \o Str(interval)

\* save_config: 'SAVECONFIG'
CmdSave == <<"S", "A", "V", "E", "C", "O", "N", "F", "I", "G">>

\* The sleeps after the commands, in milliseconds: time.sleep(10), (0.5),
\* (0.5), (0.2) and (1)
RebootWaitMs == 10000
SbasWaitMs == 500
BaseModeWaitMs == 500
RtcmWaitMs == 200
SaveWaitMs == 1000

----------------------------------------------------------------------------
(* um980_config.py: get_current_config and check_config_matches *)

\* desired_signal_group=2
DesiredSignalGroup == 2

\* config['rtcm_messages'][msg_type] = {'port': port, 'rate': rate} for every
\* accepted line '< msg_type port rate' of the UNILOGLIST answer in turn: a
\* later line for the same msg_type replaces the earlier one
RECURSIVE RtcmMessages(_)
RtcmMessages(entries) ==
    IF entries = <<>> THEN <<>>
    ELSE LET before == RtcmMessages(SubSeq(entries, 1, Len(entries) - 1))
             e == entries[Len(entries)]
         IN  [k \in DOMAIN before \cup {e.msg_type} |->
                IF k = e.msg_type THEN [port |-> e.port, rate |-> e.rate]
                ELSE before[k]]

\* The snapshot get_current_config returns
Snapshot(signal_group, sbas_enabled, mode, entries) ==
    [signal_group |-> signal_group, sbas_enabled |-> sbas_enabled,
     mode |-> mode, rtcm_messages |-> RtcmMessages(entries)]

\* required_rtcm = {msg_type for msg_type, _ in RTCM_MESSAGES}
RequiredRtcm == {RTCM_MESSAGES[i][1] : i \in DOMAIN RTCM_MESSAGES}

\* Every listed identifier taken for active, whatever its port (a faulty
\* difference)
MissingUnlisted(cfg) ==
    {msg \in RequiredRtcm : msg \notin DOMAIN cfg.rtcm_messages}

\* active_on_com2 = {msg for msg, cfg in ... if cfg['port'] == 'COM2'}
ActiveOnCom2(cfg) ==
    {msg \in DOMAIN cfg.rtcm_messages :
        cfg.rtcm_messages[msg].port = TxtCom2}

\* missing = required_rtcm - active_on_com2
Missing(cfg) == RequiredRtcm \ ActiveOnCom2(cfg)

\* config['mode'] and 'BASE' not in config['mode'].upper(): None and '' are
\* falsy and skip the test
ModeNotBase(cfg) ==
    /\ cfg.mode # None
    /\ cfg.mode[1] # <<>>
    /\ ~Contains(<<"B", "A", "S", "E">>, Upper(cfg.mode[1]))

\* check_config_matches that also wants nothing but the catalogue on COM2 (a
\* faulty comparison)
NeedsUpdateExact(cfg) ==
    \/ cfg.signal_group # Some(DesiredSignalGroup)
    \/ cfg.sbas_enabled # Some(TRUE)
    \/ ModeNotBase(cfg)
    \/ ActiveOnCom2(cfg) # RequiredRtcm

\* check_config_matches: the needs_update it returns. The signal group is
\* compared with desired_signal_group, and not config['sbas_enabled'] holds
\* for None and for False
NeedsUpdate(cfg) ==
    \/ cfg.signal_group # Some(DesiredSignalGroup)
    \/ cfg.sbas_enabled # Some(TRUE)
    \/ ModeNotBase(cfg)
    \/ Missing(cfg) # {}

----------------------------------------------------------------------------
(* The answers of the receiver on the control channel *)

\* Number of catalogue identifiers a listing may lack
MaxMissing == 1

\* What get_receiver_model may return as model: None, '', a UM98x, another
ModelTexts ==
    {None, Some(<<>>), Some(<<"U", "M", "9", "8", "0">>),
     Some(<<"B", "X", "4", "0", "C">>)}

\* A message identifier outside the catalogue
IdUnrequired == <<"R", "T", "C", "M", "1", "2", "3", "0">>

\* The accepted UNILOGLIST lines for the first i catalogue entries on COM2,
\* those of the identifiers in absent left out
RECURSIVE ListingWithout(_, _)
ListingWithout(i, absent) ==
    IF i = 0 THEN <<>>
    ELSE ListingWithout(i - 1, absent) \o
         (IF RTCM_MESSAGES[i][1] \in absent THEN <<>>
          ELSE <<[msg_type |-> RTCM_MESSAGES[i][1], port |-> TxtCom2,
                  rate |-> Str(RTCM_MESSAGES[i][2])]>>)

\* The accepted lines of a UNILOGLIST answer: the catalogue with some
\* identifiers absent, and possibly one more line before or after, for
\* RTCM1005 or for an identifier outside the catalogue, on COM1 or on COM2
Listings ==
    LET plain ==
            {ListingWithout(Len(RTCM_MESSAGES), a) :
                a \in {b \in SUBSET RequiredRtcm :
                            Cardinality(b) <= MaxMissing}}
        extra ==
            {[msg_type |-> id, port |-> port, rate |-> <<"1">>] :
                id \in {RTCM_MESSAGES[1][1], IdUnrequired},
                port \in {TxtCom1, TxtCom2}}
    IN  plain \cup {<<e>> \o l : e \in extra, l \in plain}
              \cup {l \o <<e>> : e \in extra, l \in plain}

\* The snapshots get_current_config may return. The signal group: not parsed,
\* 1 or 2; SBAS: not parsed, enabled or disabled; the mode: no '#MODE' line,
\* an empty value, base mode in either case, rover mode
Snapshots ==
    {Snapshot(g, b, m, l) :
        g \in {None, Some(1), Some(2)},
        b \in {None, Some(TRUE), Some(FALSE)},
        m \in {None, Some(<<>>),
               Some(<<"M", "O", "D", "E", " ", "B", "A", "S", "E", " ", "T",
                       "I", "M", "E", " ", "6", "0", " ", "1">>),
               Some(<<"m", "o", "d", "e", " ", "b", "a", "s", "e", " ", "t",
                       "i", "m", "e", " ", "6", "0", " ", "1">>),
               Some(<<"M", "O", "D", "E", " ", "R", "O", "V", "E", "R", " ",
                       "S", "U", "R", "V", "E", "Y">>)},
        l \in Listings}

\* What send_command may return: None, an answer with OK, an answer without
CommandResponses ==
    {None,
     Some(<<"$", "c", "o", "m", "m", "a", "n", "d", ",", "r", "e", "s", "p",
             "o", "n", "s", "e", ":", " ", "O", "K", "*", "0", "0">>),
     Some(<<"$", "c", "o", "m", "m", "a", "n", "d", ",", "r", "e", "s", "p",
             "o", "n", "s", "e", ":", " ", "P", "A", "R", "S", "I", "N", "G",
             " ", "F", "A", "I", "L", "D", "*", "0", "0">>)}

\* send_command: 'OK' in resp_str is what it reports as success
Failed(resp) == resp = None \/ ~Contains(<<"O", "K">>, resp[1])

----------------------------------------------------------------------------
(* main.py: receiver setup, and UM980Config.full_configuration *)

\* machine.WDT(timeout=8000), created when um980_config is imported
WdtTimeoutMs == 8000

\* UM980Config.__init__: time.sleep(0.5) after raising the enable pin
EnableWaitMs == 500

\* main: model, firmware = um980.get_receiver_model(); if not model: return
GetReceiverModel ==
    /\ spc = "m_model"
    /\ \E m \in ModelTexts :
        /\ model' = m
        /\ spc' = IF m = None \/ m = Some(<<>>) THEN "m_exit" ELSE "m_check"
    /\ UNCHANGED <<config, needs_update, missing, uart_log, rtcm_i,
                   step_failed, fc_result, outcome>>
    /\ UNCHANGED <<moreVars, decoderVars, casterVars, agcVars, wdt_age>>

\* main: needs_update, current_config = um980.check_config_matches()
CheckConfigMatches ==
    /\ spc = "m_check"
    /\ \E c \in Snapshots :
        /\ config' = Some(c)
        /\ needs_update' = NeedsUpdate(c)
        /\ missing' = Missing(c)
    /\ spc' = "m_decide"
    /\ UNCHANGED <<model, uart_log, rtcm_i, step_failed, fc_result, outcome>>
    /\ UNCHANGED <<moreVars, decoderVars, casterVars, agcVars, wdt_age>>

\* main: if needs_update: um980.full_configuration() ... else: ...
MainDecide ==
    /\ spc = "m_decide"
    /\ spc' = IF needs_update THEN "f_model" ELSE "m_ready"
    /\ config' = None
    /\ missing' = {}
    /\ UNCHANGED <<model, needs_update, uart_log, rtcm_i, step_failed,
                   fc_result, outcome>>
    /\ UNCHANGED <<moreVars, decoderVars, casterVars, agcVars, wdt_age>>

\* full_configuration: model and 'UM98' in model
Detected(m) ==
    m # None /\ m # Some(<<>>) /\ Contains(<<"U", "M", "9", "8">>, m[1])

\* full_configuration: get_receiver_model(), then the test of the model; the
\* else branch prints the error and the function ends
FullDetect ==
    /\ spc = "f_model"
    /\ \E m \in ModelTexts :
        IF Detected(m)
        THEN /\ spc' = "f_check"
             /\ UNCHANGED <<fc_result, outcome>>
        ELSE /\ spc' = "m_configured"
             /\ fc_result' = "None"
             /\ outcome' = "ERROR"
    /\ step_failed' = FALSE
    /\ UNCHANGED <<model, config, needs_update, missing, uart_log, rtcm_i>>
    /\ UNCHANGED <<moreVars, decoderVars, casterVars, agcVars, wdt_age>>

\* full_configuration (force_update False): needs_update, _ =
\* self.check_config_matches(); if not needs_update: return
FullCheck ==
    /\ spc = "f_check"
    /\ \E c \in Snapshots :
        IF NeedsUpdate(c)
        THEN /\ spc' = "b_signalgroup"
             /\ UNCHANGED <<fc_result, outcome>>
        ELSE /\ spc' = "m_configured"
             /\ fc_result' = "None"
             /\ outcome' = "ALREADY"
    /\ UNCHANGED <<model, config, needs_update, missing, uart_log, rtcm_i,
                   step_failed>>
    /\ UNCHANGED <<moreVars, decoderVars, casterVars, agcVars, wdt_age>>

\* self.send_command(cmd), its result dropped, then time.sleep(ms / 1000)
CommandThenSleep(cmd, ms) ==
    /\ \E resp \in CommandResponses :
        step_failed' = (step_failed \/ Failed(resp))
    /\ uart_log' = Append(uart_log, cmd)
    /\ wdt_age' = wdt_age + ms

\* configure_base_station: the signal group, then the wait for the reboot
SetSignalGroup ==
    /\ spc = "b_signalgroup"
    /\ CommandThenSleep(CmdSignalGroup, RebootWaitMs)
    /\ spc' = "b_sbas"
    /\ UNCHANGED <<model, config, needs_update, missing, rtcm_i, fc_result,
                   outcome>>
    /\ UNCHANGED <<moreVars, decoderVars, casterVars, agcVars>>

\* configure_base_station: SBAS
EnableSbas ==
    /\ spc = "b_sbas"
    /\ CommandThenSleep(CmdSbas, SbasWaitMs)
    /\ spc' = "b_mode"
    /\ UNCHANGED <<model, config, needs_update, missing, rtcm_i, fc_result,
                   outcome>>
    /\ UNCHANGED <<moreVars, decoderVars, casterVars, agcVars>>

\* configure_base_station(mode='time', duration=60, pdop=1): base mode
SetBaseMode ==
    /\ spc = "b_mode"
    /\ CommandThenSleep(CmdBaseMode(<<"t", "i", "m", "e">>, 60, 1),
                        BaseModeWaitMs)
    /\ spc' = "r_loop"
    /\ rtcm_i' = 1
    /\ UNCHANGED <<model, config, needs_update, missing, fc_result, outcome>>
    /\ UNCHANGED <<moreVars, decoderVars, casterVars, agcVars>>

\* configure_rtcm_messages(com_port='COM2'): one turn of the for loop
ConfigureRtcmMessage ==
    /\ spc = "r_loop"
    /\ CommandThenSleep(CmdRtcm(RTCM_MESSAGES[rtcm_i][1], TxtCom2,
                                RTCM_MESSAGES[rtcm_i][2]), RtcmWaitMs)
    /\ rtcm_i' = rtcm_i + 1
    /\ spc' = IF rtcm_i = Len(RTCM_MESSAGES) THEN "s_save" ELSE "r_loop"
    /\ UNCHANGED <<model, config, needs_update, missing, fc_result, outcome>>
    /\ UNCHANGED <<moreVars, decoderVars, casterVars, agcVars>>

\* save_config
SaveConfig ==
    /\ spc = "s_save"
    /\ CommandThenSleep(CmdSave, SaveWaitMs)
    /\ spc' = "f_end"
    /\ UNCHANGED <<model, config, needs_update, missing, rtcm_i, fc_result,
                   outcome>>
    /\ UNCHANGED <<moreVars, decoderVars, casterVars, agcVars>>

\* full_configuration: 'CONFIGURATION COMPLETE', and the end of the function
\* without a return statement
FullReturn ==
    /\ spc = "f_end"
    /\ fc_result' = "None"
    /\ outcome' = "COMPLETE"
    /\ spc' = "m_configured"
    /\ UNCHANGED <<model, config, needs_update, missing, uart_log, rtcm_i,
                   step_failed>>
    /\ UNCHANGED <<moreVars, decoderVars, casterVars, agcVars, wdt_age>>

\* main: print("UM980 configured") after full_configuration returned
MainReportConfigured ==
    /\ spc = "m_configured"
    /\ spc' = "m_ready"
    /\ UNCHANGED <<model, config, needs_update, missing, uart_log, rtcm_i,
                   step_failed, fc_result, outcome>>
    /\ UNCHANGED <<moreVars, decoderVars, casterVars, agcVars, wdt_age>>

\* The watchdog expires: the board resets
WatchdogReset ==
    /\ wdt_age >= WdtTimeoutMs
    /\ spc # "wdt_reset"
    /\ spc' = "wdt_reset"
    /\ UNCHANGED <<model, config, needs_update, missing, uart_log, rtcm_i,
                   step_failed, fc_result, outcome>>
    /\ UNCHANGED <<moreVars, decoderVars, casterVars, agcVars, wdt_age>>

\* After the reset main.py runs again from its first line
Reboot ==
    /\ spc = "wdt_reset"
    /\ spc' = "m_model"
    /\ model' = None
    /\ config' = None
    /\ needs_update' = FALSE
    /\ missing' = {}
    /\ uart_log' = <<>>
    /\ rtcm_i' = 1
    /\ step_failed' = FALSE
    /\ fc_result' = "pending"
    /\ outcome' = "pending"
    /\ wdt_age' = EnableWaitMs
    /\ UNCHANGED <<moreVars, decoderVars, casterVars, agcVars>>

----------------------------------------------------------------------------
(* um980_config.py: get_agc_values *)

\* s.split(ch): the pieces of s between the occurrences of the character ch
RECURSIVE SplitOn(_, _)
SplitOn(s, c) ==
    IF \E i \in 1..Len(s) : s[i] = c
    THEN LET i == CHOOSE k \in 1..Len(s) :
                    s[k] = c /\ \A j \in 1..(k - 1) : s[j] # c
         IN  <<SubSeq(s, 1, i - 1)>> \o SplitOn(SubSeq(s, i + 1, Len(s)), c)
    ELSE <<s>>

\* s.strip()
RECURSIVE Strip(_)
Strip(s) ==
    LET white == {" ", "\t", "\n", "\r"}
    IN  IF s = <<>> THEN s
        ELSE IF s[1] \in white THEN Strip(Tail(s))
        ELSE IF s[Len(s)] \in white THEN Strip(SubSeq(s, 1, Len(s) - 1))
        ELSE s

\* The number a sequence of decimal digits denotes
RECURSIVE DigitsValue(_)
DigitsValue(s) ==
    IF s = <<>> THEN 0
    ELSE 10 * DigitsValue(SubSeq(s, 1, Len(s) - 1))
         + (CHOOSE d \in 0..9 : DecimalDigits[d + 1] = s[Len(s)])

\* int(s): Some(n), or None where int() raises ValueError
ParseInt(s) ==
    LET t == Strip(s)
        signed == t # <<>> /\ t[1] \in {"-", "+"}
        digits == IF signed THEN Tail(t) ELSE t
    IN  IF \/ digits = <<>>
           \/ \E i \in 1..Len(digits) :
                \A d \in 1..10 : DecimalDigits[d] # digits[i]
        THEN None
        ELSE IF signed /\ t[1] = "-" THEN Some(0 - DigitsValue(digits))
        ELSE Some(DigitsValue(digits))

\* '#AGCA', the mark of a telemetry line
TxtAgca == <<"#", "A", "G", "C", "A">>

\* send_query('AGCA', timeout=3)
QueryAgc == <<"A", "G", "C", "A">>

\* max_retries=9
MaxRetries == 9

\* time.sleep(0.5) between attempts, in milliseconds
RetryWaitMs == 500

\* The dictionary with L5 and L2 exchanged (a faulty extraction)
FirstThreeSwapped(values_list) ==
    [L1 |-> values_list[1], L2 |-> values_list[3], L5 |-> values_list[2]]

\* agc_values = {'L1': values_list[0], 'L2': values_list[1],
\* 'L5': values_list[2]}
FirstThree(values_list) ==
    [L1 |-> values_list[1], L2 |-> values_list[2], L5 |-> values_list[3]]

\* The body of the try for one line: Some(agc_values), or None where int()
\* or the indexing raises
AgcParseLine(line) ==
    LET after == SplitOn(line, ";")
        values_part == SplitOn(after[Len(after)], "*")[1]
        fields == SplitOn(values_part, ",")
        values_list == [i \in 1..Len(fields) |-> ParseInt(fields[i])]
    IN  IF \E i \in 1..Len(fields) : values_list[i] = None THEN None
        ELSE IF Len(fields) < 3 THEN None
        ELSE Some(FirstThree([i \in 1..Len(fields) |-> values_list[i][1]]))

\* The for loop over the lines: the value returned by the first line with
\* '#AGCA' that parses, and the number of lines before it whose parsing raised
\* (each sleeps 0.5 s and the loop goes on with the next line)
RECURSIVE AgcScan(_)
AgcScan(lines) ==
    IF lines = <<>> THEN [values |-> None, raised |-> 0]
    ELSE IF ~Contains(TxtAgca, lines[1]) THEN AgcScan(Tail(lines))
    ELSE IF AgcParseLine(lines[1]) # None
         THEN [values |-> AgcParseLine(lines[1]), raised |-> 0]
    ELSE LET rest == AgcScan(Tail(lines))
         IN  [values |-> rest.values, raised |-> rest.raised + 1]

\* not resp_str
NoResponse(resp) == resp = None \/ resp = Some(<<>>)

\* '$command' in resp_str and '#AGCA' not in resp_str
AckOnly(resp) ==
    /\ ~NoResponse(resp)
    /\ Contains(<<"$", "c", "o", "m", "m", "a", "n", "d">>, resp[1])
    /\ ~Contains(TxtAgca, resp[1])

\* What the rest of one turn of the attempt loop does with resp_str
AgcTurn(resp) ==
    IF NoResponse(resp) \/ AckOnly(resp) THEN [values |-> None, raised |-> 1]
    ELSE IF Contains(TxtAgca, resp[1]) THEN AgcScan(SplitOn(resp[1], "\n"))
    ELSE [values |-> None, raised |-> 0]

\* Answers of the receiver to AGCA: the acknowledgement alone, a telemetry
\* line, one with signs and blanks and no checksum, a line with a field that
\* is no integer followed by a good line, a line with two fields, a
\* sentence that is neither, and a line with a reading below -1 and readings
\* of 10 and 9
AgcAnswers ==
    [ack |->
        <<"$", "c", "o", "m", "m", "a", "n", "d", ",", "A", "G", "C", "A", ",",
          "r", "e", "s", "p", "o", "n", "s", "e", ":", " ", "O", "K", "*", "5",
          "A", "\r", "\n">>,
     agc |->
        <<"#", "A", "G", "C", "A", ",", "9", "8", ",", "G", "P", "S", ";", "9",
          "5", ",", "7", "4", ",", "8", "3", ",", "-", "1", ",", "-", "1", "*",
          "f", "8", "\r", "\n">>,
     signed |->
        <<"#", "A", "G", "C", "A", ",", "9", "8", ",", "G", "P", "S", ";", "-",
          "1", ",", " ", "0", ",", "+", "7", "\r", "\n">>,
     bad_good |->
        <<"#", "A", "G", "C", "A", ",", "9", "8", ";", "9", "5", ",", "x", ",",
          "8", "3", "*", "f", "8", "\r", "\n", "#", "A", "G", "C", "A", ",",
          "9", "8", ";", "1", "2", ",", "3", "4", ",", "5", "6", "*", "f", "8",
          "\r", "\n">>,
     short |->
        <<"#", "A", "G", "C", "A", ",", "9", "8", ";", "9", "5", ",", "7", "4",
          "*", "f", "8", "\r", "\n">>,
     other |->
        <<"$", "G", "N", "G", "G", "A", ",", "1", ",", "2", "*", "0", "0",
          "\r", "\n">>,
     below |->
        <<"#", "A", "G", "C", "A", ",", "9", "8", ";", "-", "5", ",", "1", "0",
          ",", "9", "*", "f", "8", "\r", "\n">>]

\* What send_query('AGCA', timeout=3) may return
AgcResponses ==
    {None, Some(<<>>), Some(AgcAnswers.ack), Some(AgcAnswers.agc),
     Some(AgcAnswers.ack \o AgcAnswers.agc), Some(AgcAnswers.signed),
     Some(AgcAnswers.bad_good), Some(AgcAnswers.short), Some(AgcAnswers.other),
     Some(AgcAnswers.below)}

\* One turn of for attempt in range(max_retries): the watchdog fed, the query,
\* and the branch taken on its answer
AgcAttempt ==
    /\ apc = "a_loop"
    /\ attempt < MaxRetries
    /\ \E resp \in AgcResponses :
        /\ resp_str' = resp
        /\ nones' = IF NoResponse(resp) THEN nones + 1 ELSE nones
        /\ acks' = IF AckOnly(resp) THEN acks + 1 ELSE acks
        /\ waits' = waits + AgcTurn(resp).raised
        /\ wdt_age' = AgcTurn(resp).raised * RetryWaitMs
        /\ IF AgcTurn(resp).values # None
           THEN /\ agc_values' = AgcTurn(resp).values
                /\ apc' = "a_done"
                /\ UNCHANGED attempt
           ELSE /\ attempt' = attempt + 1
                /\ UNCHANGED <<agc_values, apc>>
    /\ uart_log' = Append(uart_log, QueryAgc)
    /\ queries' = queries + 1
    /\ UNCHANGED <<spc, model, config, needs_update, missing, rtcm_i,
                   step_failed, fc_result, outcome>>
    /\ UNCHANGED <<moreVars, decoderVars, casterVars>>

\* The loop exhausted: return None
AgcGiveUp ==
    /\ apc = "a_loop"
    /\ attempt = MaxRetries
    /\ agc_values' = None
    /\ apc' = "a_done"
    /\ UNCHANGED <<attempt, resp_str, queries, waits, acks, nones>>
    /\ UNCHANGED <<moreVars, decoderVars, casterVars, startupVars, wdt_age>>

\* def get_agc_status(self, good_max=10)
GoodMaxDefault == 10

\* A classification that tests the threshold alone
AgcClassLoose(value, max) == IF value < max THEN "good" ELSE "bad"

\* if value == -1: 'unknown' elif value >= 0 and value < good_max: 'good'
\* else: 'bad'
AgcClass(value, max) ==
    IF value = 0 - 1 THEN "unknown"
    ELSE IF value >= 0 /\ value < max THEN "good"
    ELSE "bad"

\* get_agc_status not yet called, and the good_max it is going to be given
StatusStart(max) == good_max = max /\ agc_status = None

\* get_agc_status once agc_values = self.get_agc_values() has returned:
\* None when it is None, else the class of each of L1, L2, L5
AgcStatus ==
    /\ apc = "a_done"
    /\ apc' = "a_status"
    /\ agc_status' =
         IF agc_values = None THEN None
         ELSE Some([freq \in {"L1", "L2", "L5"} |->
                      AgcClass(agc_values[1][freq], good_max)])
    /\ UNCHANGED <<good_max, crcVars, linkVars, lateVars, decoderVars, casterVars,
                   startupVars,
                   wdt_age, attempt, resp_str, agc_values, queries, waits,
                   acks, nones>>

\* The driver as main constructs it, main about to call get_receiver_model
\* and get_agc_values not yet entered: __init__ has slept once since the
\* watchdog was created
Um980Start ==
    /\ spc = "m_model"
    /\ model = None
    /\ config = None
    /\ needs_update = FALSE
    /\ missing = {}
    /\ uart_log = <<>>
    /\ rtcm_i = 1
    /\ step_failed = FALSE
    /\ fc_result = "pending"
    /\ outcome = "pending"
    /\ apc = "a_loop"
    /\ attempt = 0
    /\ agc_values = None
    /\ resp_str = None
    /\ queries = 0
    /\ waits = 0
    /\ acks = 0
    /\ nones = 0
    /\ wdt_age = EnableWaitMs

----------------------------------------------------------------------------
(* um980_config.py: send_query and send_command on the control UART *)

\* The characters of code 32 to 126, in the order of their codes (the quote,
\* the backslash and the backtick, which no command holds, by their names)
Ascii ==
    <<" ", "!", "quote", "#", "$", "%", "&", "'", "(", ")", "*", "+", ",",
      "-", ".", "/", "0", "1", "2", "3", "4", "5", "6", "7", "8", "9", ":",
      ";", "<", "=", ">", "?", "@", "A", "B", "C", "D", "E", "F", "G", "H",
      "I", "J", "K", "L", "M", "N", "O", "P", "Q", "R", "S", "T", "U", "V",
      "W", "X", "Y", "Z", "[", "backslash", "]", "^", "_", "backtick", "a",
      "b", "c", "d", "e", "f", "g", "h", "i", "j", "k", "l", "m", "n", "o",
      "p", "q", "r", "s", "t", "u", "v", "w", "x", "y", "z", "{", "|", "}",
      "~">>

\* ord(char), for a character of Ascii
Ord(char) == 31 + (CHOOSE i \in 1..Len(Ascii) : Ascii[i] = char)

\* str.encode() of a text of such characters: one byte each
Encode(text) == [i \in 1..Len(text) |-> Ord(text[i])]

\* '{:02X}'.format(n), n in 0..255
Hex02(n) ==
    LET digits == <<"0", "1", "2", "3", "4", "5", "6", "7", "8", "9", "A", "B",
                    "C", "D", "E", "F">>
    IN  <<digits[(n \div 16) + 1], digits[(n % 16) + 1]>>

\* A checksum that adds the codes where _xor8_checksum combines them by XOR
RECURSIVE Sum8Checksum(_)
Sum8Checksum(data) ==
    IF data = <<>> THEN 0
    ELSE (Sum8Checksum(SliceTo(data, Len(data) - 1)) + Ord(data[Len(data)])) % 256

\* _xor8_checksum: checksum = 0; for char in data: checksum ^= ord(char);
\* the value of checksum & 0xFF
RECURSIVE Xor8Checksum(_)
Xor8Checksum(data) ==
    IF data = <<>> THEN 0
    ELSE BitXor(Xor8Checksum(SliceTo(data, Len(data) - 1)),
                Ord(data[Len(data)])) % 256

\* _cmd_with_checksum: f'${cmd}*{self._xor8_checksum(cmd)}'
CmdWithChecksum(cmd) == <<"$">> \o cmd \o <<"*">> \o Hex02(Xor8Checksum(cmd))

\* send_query(cmd, timeout=5), send_command(cmd, timeout=2); the wait for
\* silence, max_response_size and the time.sleep(0.01) of the loop
QueryTimeoutMs == 5000
CommandTimeoutMs == 2000
IdleMs == 500
MaxResponseSize == 4096
SleepMs == 10

\* The calls followed: the queries and commands the driver sends, and the
\* empty text either way
LinkCalls ==
    {<<"query", cmd>> :
        cmd \in {<<>>, QueryAgc, <<"M", "O", "D", "E">>,
                 <<"C", "O", "N", "F", "I", "G">>}}
    \cup {<<"command", cmd>> :
        cmd \in {<<>>, CmdSignalGroup, CmdSbas, CmdSave,
                 CmdBaseMode(<<"t", "i", "m", "e">>, 60, 1)}}

\* The absolute timeout of the call, by default
TimeoutMs(kind) == IF kind = "query" THEN QueryTimeoutMs ELSE CommandTimeoutMs

\* The call not yet made
LinkStart ==
    /\ lpc = "idle"
    /\ written = <<>>
    /\ elapsed = 0
    /\ last_data_time = None
    /\ response_len = 0
    /\ resp_returned = None
    /\ call \in LinkCalls

\* The call not made at all
LinkUnused ==
    /\ lpc = "idle"
    /\ written = <<>>
    /\ elapsed = 0
    /\ last_data_time = None
    /\ response_len = 0
    /\ resp_returned = None
    /\ call = <<"query", <<>>>>

\* self._clear_buffer(); self.uart.write(... .encode() + b'\r\n');
\* start = time.ticks_ms(); response = b''; last_data_time = None
UartWrite ==
    /\ lpc = "idle"
    /\ written' = Encode(IF call[1] = "query" THEN call[2]
                         ELSE CmdWithChecksum(call[2])) \o <<13, 10>>
    /\ lpc' = "loop"
    /\ UNCHANGED <<call, elapsed, last_data_time, response_len, resp_returned>>
    /\ UNCHANGED <<crcVars, statusVars, lateVars, decoderVars, casterVars,
                   um980Vars>>

LinkState(pc, now, last, len, ret) ==
    [pc |-> pc, now |-> now, last |-> last, len |-> len, ret |-> ret]

\* A wait for silence that never ends
IdleOverNever(now, last) == FALSE

\* time.ticks_diff(time.ticks_ms(), last_data_time) > 500
IdleOver(now, last) == now - last > IdleMs

\* One test of the while condition and, when it holds, one pass of the loop
\* of send_query or send_command in which uart.read() returns n bytes (0
\* when uart.any() is 0); the clock is read as start + now all through the
\* pass and the pass ends with time.sleep(0.01). When the condition fails:
\* the statements after the loop. The response is counted, not kept: the
\* receiver answers in ASCII, and decode returns as many characters as
\* there are bytes.
LinkPass(kind, c, n) ==
    IF c.pc # "loop" THEN c
    ELSE IF ~(c.now < TimeoutMs(kind)
              /\ (kind = "query" => c.len < MaxResponseSize))
      THEN [c EXCEPT !.pc = "ret_end",
                     !.ret = IF c.len > 0 THEN Some(c.len) ELSE None]
    ELSE LET len == c.len + n
             last == IF n > 0 THEN Some(c.now) ELSE c.last
         IN  IF len > 0 /\ last # None /\ IdleOver(c.now, last[1])
             THEN [c EXCEPT !.pc = "ret_idle", !.len = len, !.last = last,
                            !.ret = Some(len)]
             ELSE [c EXCEPT !.len = len, !.last = last, !.now = @ + SleepMs]

\* k passes in which nothing arrives, or as many as there are until the
\* call returns
RECURSIVE LinkQuiet(_, _, _)
LinkQuiet(kind, c, k) ==
    IF k = 0 \/ c.pc # "loop" THEN c
    ELSE LET after == LinkPass(kind, c, 0)
         IN  IF after.pc = "loop" THEN LinkQuiet(kind, after, k - 1) ELSE after

\* A pass in which 0, 1 or 256 bytes arrive, and a quarter or half a second
\* of passes in which nothing does
LinkLoop ==
    /\ lpc = "loop"
    /\ \E n \in {0, 1, 256}, k \in {25, 50} :
         LET c == LinkQuiet(call[1],
                            LinkPass(call[1],
                                     LinkState(lpc, elapsed, last_data_time,
                                               response_len, resp_returned),
                                     n),
                            k - 1)
         IN  /\ lpc' = c.pc
             /\ elapsed' = c.now
             /\ last_data_time' = c.last
             /\ response_len' = c.len
             /\ resp_returned' = c.ret
    /\ UNCHANGED <<call, written>>
    /\ UNCHANGED <<crcVars, statusVars, lateVars, decoderVars, casterVars,
                   um980Vars>>

----------------------------------------------------------------------------
(* um980_config.py: the UNILOGLIST answer, line by line *)

\* No UNILOGLIST answer taken yet, and the accepted lines of the one that is
\* going to be taken
ListingStart(lines) ==
    /\ kpc = "lines"
    /\ listed = lines
    /\ line_i = 0
    /\ rtcm_seen = <<>>
    /\ missing_com2 = {}

ListingUnused == ListingStart(<<>>)

\* get_current_config, the loop over the lines of the UNILOGLIST answer:
\* config['rtcm_messages'][msg_type] = {'port': port, 'rate': rate}
ListingLine ==
    /\ kpc = "lines"
    /\ line_i < Len(listed)
    /\ line_i' = line_i + 1
    /\ rtcm_seen' =
         LET e == listed[line_i + 1]
         IN  [k \in DOMAIN rtcm_seen \cup {e.msg_type} |->
                IF k = e.msg_type THEN [port |-> e.port, rate |-> e.rate]
                ELSE rtcm_seen[k]]
    /\ UNCHANGED <<kpc, listed, missing_com2>>
    /\ UNCHANGED <<crcVars, statusVars, linkVars, workflowVars, decoderVars,
                   casterVars, um980Vars>>

\* check_config_matches on the snapshot returned: missing = required_rtcm -
\* active_on_com2
ListingCheck ==
    /\ kpc = "lines"
    /\ line_i = Len(listed)
    /\ missing_com2' = Missing([rtcm_messages |-> rtcm_seen])
    /\ kpc' = "checked"
    /\ UNCHANGED <<listed, line_i, rtcm_seen>>
    /\ UNCHANGED <<crcVars, statusVars, linkVars, workflowVars, decoderVars,
                   casterVars, um980Vars>>

----------------------------------------------------------------------------
(* main.py: main(), the workflow around the receiver setup *)

\* The passes of the periodic loop that are followed
MaxLoops == 3

\* config_manager.config as the module defines it: the ntrip_* entries
DefaultConfig ==
    [ntrip_server |-> Some(<<"c", "r", "t", "k", ".", "n", "e", "t">>),
     ntrip_port |-> [py |-> "int", text |-> <<"2", "1", "0", "1">>],
     ntrip_mountpoint |-> None,
     ntrip_user |-> None,
     ntrip_password |-> None]

\* What the server's JSON may hold for a setting: null, "" or a text
SettingValues == {None, Some(<<>>), Some(<<"x">>)}

\* What it may hold for the port: a number, a text of digits, another text,
\* null
PortValues ==
    {[py |-> "int", text |-> <<"2", "1", "0", "1">>],
     [py |-> "str", text |-> <<"2", "1", "0", "1">>],
     [py |-> "str", text |-> <<"a">>],
     [py |-> "NoneType", text |-> <<>>]}

\* config after download_config returned True: the server's values replace
\* the module's
DownloadedConfigs ==
    [ntrip_server : {None, DefaultConfig.ntrip_server},
     ntrip_port : PortValues,
     ntrip_mountpoint : SettingValues,
     ntrip_user : {None, Some(<<"x">>)},
     ntrip_password : SettingValues]

\* bool(v) of a setting: None and '' are false
Truthy(v) == v # None /\ v[1] # <<>>

\* all([...]) of the first three of these settings, the password left out
AllButPassword(c) ==
    /\ Truthy(c.ntrip_server)
    /\ Truthy(c.ntrip_mountpoint)
    /\ Truthy(c.ntrip_user)

\* all([config['ntrip_server'], config['ntrip_mountpoint'],
\*      config['ntrip_user'], config['ntrip_password']])
AllNtripSettings(c) ==
    /\ Truthy(c.ntrip_server)
    /\ Truthy(c.ntrip_mountpoint)
    /\ Truthy(c.ntrip_user)
    /\ Truthy(c.ntrip_password)

\* int(config['ntrip_port']): Some(n), or None where int() raises
PortInt(p) ==
    IF p.py = "NoneType" THEN None
    ELSE IF p.py = "int" THEN Some(DigitsValue(p.text))
    ELSE ParseInt(p.text)

\* main() is about to run STEP 1
WorkflowStart(at) ==
    /\ step = at
    /\ nic = "None"
    /\ ntrip_conf = DefaultConfig
    /\ ntrip = "None"
    /\ thread_started = FALSE
    /\ loop_count = 0

WorkflowUnused == WorkflowStart("unused")

\* STEP 1: nic = w5x00_init(...); if not nic: return. w5x00_init catches
\* every exception and returns the interface or None
InitEthernet ==
    /\ step = "ethernet"
    /\ \E r \in {"None", "nic"} :
          /\ nic' = r
          /\ step' = IF r = "None" THEN "returned" ELSE "um980"
    /\ UNCHANGED <<ntrip_conf, ntrip, thread_started, loop_count>>
    /\ UNCHANGED <<listingVars, crcVars, statusVars, linkVars, decoderVars,
                   casterVars, um980Vars>>

\* STEP 2, `if not model: return`: main returns from the receiver setup
ReceiverUndetected ==
    /\ step = "um980"
    /\ spc = "m_exit"
    /\ step' = "returned"
    /\ UNCHANGED <<nic, ntrip_conf, ntrip, thread_started, loop_count>>
    /\ UNCHANGED <<listingVars, crcVars, statusVars, linkVars, decoderVars,
                   casterVars, um980Vars>>

\* STEP 3, after the receiver setup: download_config returns False and config
\* stays as it is, or True with the server's values in config
DownloadConfig ==
    /\ step = "um980"
    /\ spc = "m_ready"
    /\ \E c \in DownloadedConfigs \cup {DefaultConfig} : ntrip_conf' = c
    /\ step' = "ntrip"
    /\ UNCHANGED <<nic, ntrip, thread_started, loop_count>>
    /\ UNCHANGED <<listingVars, crcVars, statusVars, linkVars, decoderVars,
                   casterVars, um980Vars>>

\* STEP 4: without the four settings ntrip = None; with them NTRIPCaster(...,
\* port=int(config['ntrip_port']), ...) and start_ntrip_thread. An int() that
\* raises leaves main: only KeyboardInterrupt is caught, and only in STEP 5
StartNtrip ==
    /\ step = "ntrip"
    /\ IF ~AllNtripSettings(ntrip_conf)
       THEN /\ step' = "loop"
            /\ UNCHANGED <<ntrip, thread_started>>
       ELSE IF PortInt(ntrip_conf.ntrip_port) = None
       THEN /\ step' = "raised"
            /\ UNCHANGED <<ntrip, thread_started>>
       ELSE /\ ntrip' = "NTRIPCaster"
            /\ thread_started' = TRUE
            /\ step' = "loop"
    /\ UNCHANGED <<nic, ntrip_conf, loop_count>>
    /\ UNCHANGED <<listingVars, crcVars, statusVars, linkVars, decoderVars,
                   casterVars, um980Vars>>

\* STEP 5, one pass of `while True`: loop_count += 1 ... time.sleep(1). The
\* get_agc_status of every 30th pass is followed on its own
PeriodicPass ==
    /\ step = "loop"
    /\ loop_count < MaxLoops
    /\ loop_count' = loop_count + 1
    /\ UNCHANGED <<step, nic, ntrip_conf, ntrip, thread_started>>
    /\ UNCHANGED <<listingVars, crcVars, statusVars, linkVars, decoderVars,
                   casterVars, um980Vars>>

\* STEP 5, except KeyboardInterrupt: main says Goodbye; the disconnect() it
\* calls when ntrip is set is followed with the relay thread
Shutdown ==
    /\ step = "loop"
    /\ step' = "goodbye"
    /\ UNCHANGED <<nic, ntrip_conf, ntrip, thread_started, loop_count>>
    /\ UNCHANGED <<listingVars, crcVars, statusVars, linkVars, decoderVars,
                   casterVars, um980Vars>>

----------------------------------------------------------------------------
(* The routines followed on their own, before they are entered *)

LateStart == ListingUnused /\ WorkflowUnused

MoreStart ==
    CrcStart /\ StatusStart(GoodMaxDefault) /\ LinkUnused /\ LateStart

----------------------------------------------------------------------------
(* Specifications *)

\* NTRIPCaster.__init__ and start_ntrip_thread: the thread is about to call
\* connect()
CasterStart ==
    /\ socket = "None"
    /\ connected = FALSE
    /\ running = FALSE
    /\ leaked = 0
    /\ tpc = "c_socket"
    /\ where = "init"
    /\ response = <<>>
    /\ nrecv = 0
    /\ recv_raised = FALSE
    /\ branch = "pending"
    /\ result = "pending"
    /\ bytes_sent = 0
    /\ data_len = 0
    /\ mpc = "periodic"

ThreadNext ==
    \/ ConnectSocket
    \/ ConnectSetTimeout
    \/ ConnectTcp
    \/ ConnectSendRequest
    \/ ConnectRecv
    \/ ConnectClassify
    \/ ConnectSetConnected
    \/ ConnectClose
    \/ ConnectSetNone
    \/ ConnectExcept
    \/ ConnectExceptClose
    \/ ConnectExceptSetNone
    \/ AfterConnect
    \/ Sleep60
    \/ SetRunning
    \/ LoopTest
    \/ UartPoll
    \/ SendCheck
    \/ SendWrite
    \/ CountBytes
    \/ Sleep10
    \/ ThreadDisconnect

MainNext == MainInterrupt \/ MainDisconnect

CasterNext == ThreadNext \/ MainNext

\* The decoder fed by its caller; the caster client stays as constructed
DecoderInit == DecoderStart /\ CasterStart /\ Um980Start /\ MoreStart

SpecDecoder == DecoderInit /\ [][DecoderNext]_vars

\* The decoder fed with long streams, as read_rtcm_data feeds it
StreamInit == StreamStart /\ CasterStart /\ Um980Start /\ MoreStart

SpecStream == StreamInit /\ [][FeedRead \/ ProcessStep]_vars

\* A decoder that is never fed
DecoderUnused ==
    /\ debug_crc = FALSE
    /\ buffer = <<>>
    /\ msg_count = 0
    /\ error_count = 0
    /\ dpc = "idle"
    /\ raised = FALSE
    /\ log = <<>>
    /\ pending = <<>>
    /\ fed = <<>>

\* The relay thread and the main thread, interleaved statement by statement
CasterInit == DecoderUnused /\ CasterStart /\ Um980Start /\ MoreStart

SpecCaster == CasterInit /\ [][CasterNext]_vars

\* The same, with both threads scheduled: the relay thread has a core of its own
\* and a disconnect() that main has begun runs to its end
FairSpecCaster ==
    /\ SpecCaster
    /\ WF_vars(ThreadNext)
    /\ WF_vars(MainDisconnect)

\* The receiver driver on its own: the decoder is not fed and the relay
\* thread not started
Um980Init == DecoderUnused /\ CasterStart /\ Um980Start /\ MoreStart

\* main's receiver setup statement by statement, the watchdog left aside
StartupNext ==
    \/ GetReceiverModel
    \/ CheckConfigMatches
    \/ MainDecide
    \/ FullDetect
    \/ FullCheck
    \/ SetSignalGroup
    \/ EnableSbas
    \/ SetBaseMode
    \/ ConfigureRtcmMessage
    \/ SaveConfig
    \/ FullReturn
    \/ MainReportConfigured

SpecStartup == Um980Init /\ [][StartupNext]_vars

\* The same setup on the board, where the watchdog runs: a statement runs
\* while the watchdog has not expired. Nothing feeds the watchdog during the
\* setup, and time.sleep(10) after the signal group command alone outlasts
\* its 8000 ms, so the statements of full_configuration after that sleep
\* are never reached
WatchdogNext ==
    \/ wdt_age < WdtTimeoutMs /\ GetReceiverModel
    \/ wdt_age < WdtTimeoutMs /\ CheckConfigMatches
    \/ wdt_age < WdtTimeoutMs /\ MainDecide
    \/ wdt_age < WdtTimeoutMs /\ FullDetect
    \/ wdt_age < WdtTimeoutMs /\ FullCheck
    \/ wdt_age < WdtTimeoutMs /\ SetSignalGroup
    \/ wdt_age < WdtTimeoutMs /\ MainReportConfigured
    \/ WatchdogReset
    \/ Reboot

SpecWatchdog == Um980Init /\ [][WatchdogNext]_vars

\* One call of _crc24q, its loop followed byte by byte
CrcInit == DecoderUnused /\ CasterStart /\ Um980Start /\ MoreStart

SpecCrc == CrcInit /\ [][CrcByte]_vars

\* One call of get_agc_values()
AgcNext == AgcAttempt \/ AgcGiveUp

SpecAgc == Um980Init /\ [][AgcNext]_vars

\* One call of get_agc_status(good_max), with the default and two lower
\* thresholds
StatusInit ==
    /\ DecoderUnused /\ CasterStart /\ Um980Start /\ CrcStart /\ LinkUnused
    /\ LateStart
    /\ \E max \in {0, 7, GoodMaxDefault} : StatusStart(max)

SpecStatus == StatusInit /\ [][AgcNext \/ AgcStatus]_vars

\* One call of send_query or send_command
LinkInit ==
    /\ DecoderUnused /\ CasterStart /\ Um980Start /\ CrcStart
    /\ StatusStart(GoodMaxDefault) /\ LinkStart /\ LateStart

SpecLink == LinkInit /\ [][UartWrite \/ LinkLoop]_vars

\* One UNILOGLIST answer parsed and checked
ListingInit ==
    /\ DecoderUnused /\ CasterStart /\ Um980Start /\ CrcStart
    /\ StatusStart(GoodMaxDefault) /\ LinkUnused /\ WorkflowUnused
    /\ \E lines \in Listings : ListingStart(lines)

SpecListing == ListingInit /\ [][ListingLine \/ ListingCheck]_vars

\* main(), STEP 1 to STEP 5
WorkflowInit ==
    /\ DecoderUnused /\ CasterStart /\ Um980Start
    /\ CrcStart /\ StatusStart(GoodMaxDefault) /\ LinkUnused /\ ListingUnused
    /\ WorkflowStart("ethernet")

\* main() from its first statement, the watchdog left aside: the receiver
\* setup runs between STEP 1 and STEP 3
WorkflowNext ==
    \/ InitEthernet
    \/ step = "um980" /\ StartupNext
    \/ ReceiverUndetected
    \/ DownloadConfig
    \/ StartNtrip
    \/ PeriodicPass
    \/ Shutdown

SpecWorkflow == WorkflowInit /\ [][WorkflowNext]_vars

----------------------------------------------------------------------------
(* Claims about the frame decoder (checked under SpecDecoder) *)

\* The lines of the log that report a successfully decoded frame
Decoded(l) == SelectSeq(l, LAMBDA e : e.kind = "msg")

\* A complete frame is buffered at the head of the buffer, inside process()
FrameAtHead ==
    /\ dpc = "loop"
    /\ Len(buffer) >= 6
    /\ buffer[1] = Preamble
    /\ Len(buffer) >= FrameLen(buffer)

HeadFrame == SliceTo(buffer, FrameLen(buffer))

\* The trailing 3 bytes of the frame equal crc24q of all preceding frame bytes
TrailerMatches(frame) ==
    LET n == Len(frame)
        c == Crc24q(SliceTo(frame, n - 3))
    IN  SliceFrom(frame, n - 3) = <<Shr(c, 16), Shr(c, 8) % 256, c % 256>>

\* C1: Chunking invariance. Whenever process() has returned, the decoded frames
\* and messages_decoded are those of a fresh decoder given every byte fed so far
\* in one process() call, however the bytes were split into chunks.
C1_ChunkingInvariance ==
    dpc = "idle" =>
        LET whole == Process(NewDecoder(debug_crc), fed)
        IN  /\ Decoded(log) = Decoded(whole.log)
            /\ msg_count = whole.msg_count

\* C1 witness: a frame has been decoded and a chunk boundary fell inside the
\* next frame (its header is buffered, the frame is incomplete, bytes remain).
C1_Witness ==
    /\ dpc = "idle"
    /\ msg_count >= 1
    /\ Len(buffer) >= 6
    /\ buffer[1] = Preamble
    /\ Len(buffer) < FrameLen(buffer)
    /\ pending # <<>>

\* C2 (as claimed): every complete frame at the head of the buffer that starts
\* with 0xD3 and carries a matching CRC makes process() add one to
\* messages_decoded, leave crc_errors alone and remove 3 + payload_length + 3
\* bytes; one such frame fed alone ends with 1 message, 0 errors, empty buffer.
C2_ValidFrameCounted ==
    /\ [][(FrameAtHead /\ TrailerMatches(HeadFrame)) =>
            /\ msg_count' = msg_count + 1
            /\ error_count' = error_count
            /\ buffer' = SliceFrom(buffer, 3 + MsgLen(buffer) + 3)]_vars
    /\ [](  (/\ dpc = "idle"
             /\ pending = <<>>
             /\ Len(fed) >= 6
             /\ fed[1] = Preamble
             /\ Len(fed) = FrameLen(fed)
             /\ TrailerMatches(fed))
          => (msg_count = 1 /\ error_count = 0 /\ buffer = <<>>))

\* C3: every complete frame at the head of the buffer that starts with 0xD3 and
\* whose trailing 3 bytes differ from crc24q of the preceding bytes makes
\* process() add one to crc_errors, leave messages_decoded alone and remove the
\* declared frame length; a valid frame with its last CRC byte flipped, fed
\* alone, ends with 1 error, 0 messages and an empty buffer.
C3_CrcFailureCounted ==
    /\ [][(FrameAtHead /\ ~TrailerMatches(HeadFrame)) =>
            /\ error_count' = error_count + 1
            /\ msg_count' = msg_count
            /\ buffer' = SliceFrom(buffer, 3 + MsgLen(buffer) + 3)]_vars
    /\ []((dpc = "idle" /\ pending = <<>> /\ fed = FlipLast(Frame1005))
          => (error_count = 1 /\ msg_count = 0 /\ buffer = <<>>))

\* C3 witness: the flipped-CRC frame was fed alone and process() has returned
\* with the failure counted.
C3_Witness ==
    /\ dpc = "idle"
    /\ pending = <<>>
    /\ fed = FlipLast(Frame1005)
    /\ error_count = 1
    /\ buffer = <<>>

----------------------------------------------------------------------------
(* Claims about connect() and run_threaded (checked under SpecCaster) *)

\* main has not been interrupted: no disconnect() of the main thread has begun
NoStop == mpc = "periodic"

HasIcy200(t) == Contains(TxtIcy200, t)
HasHttp11_200(t) == Contains(TxtHttp11 \o Txt200Ok, t)
HasHttp10_200(t) == Contains(TxtHttp10 \o Txt200Ok, t)
HasHttp11_409(t) == Contains(TxtHttp11 \o Txt409, t)
HasHttp10_409(t) == Contains(TxtHttp10 \o Txt409, t)

\* connect() has just returned to run_threaded
Returned == tpc = "ret"

\* ConflictRetry as the claims describe it
YieldsConflictRetry == result = "retry" /\ socket = "None" /\ ~connected

\* Failed as the claims describe it
YieldsFailed == result = "False" /\ socket = "None" /\ ~connected

C5_Every200IsConnected ==
    NoStop =>
        /\ (/\ Returned
            /\ \/ HasIcy200(response)
               \/ HasHttp11_200(response)
               \/ HasHttp10_200(response))
           => (result = "True" /\ connected /\ socket = "open")
        /\ connected => result = "True"

C7_ConflictAlwaysRetried ==
    /\ [][(Returned /\ result = "retry" /\ tpc' # tpc)
            => (tpc' = "sleep60" /\ where' = where)]_vars
    /\ [][(tpc = "sleep60" /\ tpc' # tpc)
            => (tpc' = "c_socket" /\ where' = where /\ result' = "pending")]_vars
    /\ [][(tpc' \in {"gave_up", "returned", "crashed"} \cup DisconnectPcs)
            => result' # "retry"]_vars

\* C7 witness: the reconnect loop is in its 60 s sleep after a 'retry' result.
C7_Witness == tpc = "sleep60" /\ where = "reconn" /\ result = "retry"

\* C8: a failed send (send_rtcm returning False) takes run_threaded into the
\* reconnect loop; there every result other than True leads to a 60 s sleep and
\* another connect(); socket.send of send_rtcm runs only while the last
\* connect() has returned True; and a True result resumes the relay loop.
C8_ReconnectUntilConnected ==
    /\ [][(tpc \in {"s_check", "s_send"} /\ tpc' \notin {"s_check", "s_send", "count"})
            => (tpc' = "c_socket" /\ where' = "reconn" /\ result' = "pending")]_vars
    /\ [][(Returned /\ where = "reconn" /\ result # "True" /\ tpc' # tpc)
            => tpc' = "sleep60"]_vars
    /\ [][(tpc = "sleep60" /\ where = "reconn" /\ tpc' # tpc)
            => (tpc' = "c_socket" /\ where' = "reconn")]_vars
    /\ [][tpc' = "s_send" => result' = "True"]_vars
    /\ [][(Returned /\ where = "reconn" /\ result = "True" /\ tpc' # tpc)
            => tpc' = "sleep10"]_vars
    /\ [][(tpc = "sleep10" /\ tpc' # tpc) => tpc' = "loop"]_vars

\* C8 witness: after a reconnect that ended with True, send_rtcm is about to
\* write to the socket again.
C8_Witness == tpc = "s_send" /\ where = "reconn" /\ result = "True" /\ NoStop

\* C9 (as claimed): no result of connect() makes run_threaded return before the
\* relay loop has started.
C9_StartupNeverReturns == NoStop => tpc # "gave_up"

\* C9 (amended): at startup run_threaded calls connect() again after every
\* 'retry' result and enters the relay loop on True; a False result, and only
\* that, makes it return before the relay loop has started.
C9_StartupRetriesOnlyConflict ==
    /\ [][(Returned /\ where = "init" /\ tpc' # tpc)
            => /\ result = "retry" => tpc' = "sleep60"
               /\ result = "True" => tpc' = "r_running"
               /\ result = "False" <=> tpc' = "gave_up"]_vars
    /\ [][tpc' = "gave_up" => (result' = "False" /\ where' = "init")]_vars

\* C9 witness: run_threaded has returned from the initial loop on a False
\* result of connect(), main not having been interrupted.
C9_Witness == tpc = "gave_up" /\ result = "False" /\ NoStop

\* The relay thread has left run_threaded: by its finally, by the return of the
\* initial loop, or by an exception of the initial loop
ThreadEnded == tpc \in {"returned", "gave_up", "crashed"}

\* C10 (as claimed): once main's disconnect() has run, the relay thread
\* eventually has left run_threaded with the transport closed and connected
\* false.
C10_StopEndsRelay ==
    (mpc = "goodbye") ~> (ThreadEnded /\ socket # "open" /\ ~connected)

----------------------------------------------------------------------------
(* Claims about send_rtcm, disconnect() and the two contexts (SpecCaster) *)

\* The relay thread takes a step
ThreadSteps == tpc' # tpc

\* C11: send_rtcm never raises past run_threaded: it ends by returning True
\* (the relay loop counts the bytes) or False (the relay loop reconnects). With
\* connected false or no socket it returns False and no socket.send runs; the
\* send runs only after the test has passed; a send that fails clears connected
\* and returns False; True is returned only by a send on an open socket.
C11_SendNeverRaises ==
    /\ [][(tpc = "s_check" /\ ThreadSteps)
            => \/ tpc' = "s_send" /\ connected /\ socket # "None"
               \/ /\ tpc' = "c_socket"
                  /\ where' = "reconn"
                  /\ ~connected \/ socket = "None"
                  /\ UNCHANGED <<socket, connected, running>>]_vars
    /\ [][(tpc = "s_send" /\ ThreadSteps)
            => \/ tpc' = "count" /\ socket = "open" /\ UNCHANGED connected
               \/ tpc' = "c_socket" /\ where' = "reconn" /\ ~connected']_vars
    /\ [][(tpc' = "s_send" /\ ThreadSteps) => tpc = "s_check"]_vars
    /\ [][(tpc' = "count" /\ ThreadSteps) => tpc = "s_send"]_vars

\* C11 witness: a send on the open socket has failed; send_rtcm has cleared
\* connected and returned False, and run_threaded is about to reconnect.
C11_Witness ==
    /\ tpc = "c_socket"
    /\ where = "reconn"
    /\ socket = "open"
    /\ ~connected
    /\ NoStop

\* The client as disconnect() leaves it
Disconnected == [socket |-> "None", connected |-> FALSE, running |-> FALSE]

\* C12: in every state of the client, disconnect() run to its end yields
\* connected false, running false and socket None; it reaches close() exactly
\* when a socket is held; run once more it changes nothing, statement by
\* statement; and a context inside disconnect() always proceeds to the next
\* statement or to the end of disconnect(), never to an exception.
C12_DisconnectIdempotent ==
    /\ [](/\ DisconnectRun(Client) = Disconnected
          /\ DisconnectRun(DisconnectRun(Client)) = DisconnectRun(Client)
          /\ \A pc \in DisconnectPcs :
                DisconnectStmt(pc, DisconnectRun(Client)) = DisconnectRun(Client)
          /\ (DisconnectGoto("d_test", Client, "done") = "d_close")
                <=> (socket # "None"))
    /\ [][(mpc \in DisconnectPcs /\ mpc' # mpc)
            => mpc' \in DisconnectPcs \cup {"goodbye"}]_vars
    /\ [][(tpc \in DisconnectPcs /\ ThreadSteps)
            => tpc' \in DisconnectPcs \cup {"returned"}]_vars
    /\ [][(/\ Client = Disconnected
            /\ \/ mpc \in DisconnectPcs /\ mpc' # mpc
               \/ tpc \in DisconnectPcs /\ ThreadSteps)
            => UNCHANGED <<socket, connected, running>>]_vars

\* C12 witness: main's disconnect() has closed an open socket and finished, and
\* the relay thread's finally runs disconnect() a second time, finding no
\* socket to close.
C12_Witness ==
    /\ mpc = "goodbye"
    /\ tpc = "d_test"
    /\ Client = Disconnected
    /\ leaked = 0

\* A context has written a part of what its connect() or disconnect() writes to
\* socket, connected and running, and not yet the rest
ThreadMidUpdate ==
    tpc \in (ConnectPcs \ {"c_socket"}) \cup (DisconnectPcs \ {"d_running"})

MainMidUpdate == mpc \in DisconnectPcs \ {"d_running"}

\* C13 (as claimed): socket, connected and running are updated under mutual
\* exclusion: the two contexts are never both part-way through an update, and
\* send_rtcm never tests connected and socket while main's disconnect() has
\* written only a part of them.
C13_MutualExclusion ==
    /\ ~(ThreadMidUpdate /\ MainMidUpdate)
    /\ ~(tpc = "s_check" /\ MainMidUpdate)

----------------------------------------------------------------------------
(* Claims about check_config_matches (checked under SpecStartup) *)

\* main holds the snapshot and the verdict check_config_matches returned
Checked == spc = "m_decide"

\* Every identifier of the catalogue has an entry on COM2 in the snapshot
CatalogueOnCom2(cfg) ==
    \A i \in DOMAIN RTCM_MESSAGES :
        /\ RTCM_MESSAGES[i][1] \in DOMAIN cfg.rtcm_messages
        /\ cfg.rtcm_messages[RTCM_MESSAGES[i][1]].port = TxtCom2

\* Signal group 2, SBAS enabled and a mode with BASE in it
SettingsMatch(cfg) ==
    /\ cfg.signal_group = Some(2)
    /\ cfg.sbas_enabled = Some(TRUE)
    /\ cfg.mode # None
    /\ Contains(<<"B", "A", "S", "E">>, cfg.mode[1])

\* C15: whenever the snapshot check_config_matches observed has signal group
\* 2, SBAS enabled, a mode containing BASE and every identifier of the
\* RTCM_MESSAGES catalogue on COM2, the needs_update it reports is false.
C15_MatchingSnapshotAccepted ==
    (Checked /\ SettingsMatch(config[1]) /\ CatalogueOnCom2(config[1]))
        => ~needs_update

\* A matching snapshot that also lists an identifier outside the catalogue on
\* COM2 has been accepted
C15_Witness ==
    /\ Checked
    /\ SettingsMatch(config[1])
    /\ CatalogueOnCom2(config[1])
    /\ IdUnrequired \in DOMAIN config[1].rtcm_messages
    /\ config[1].rtcm_messages[IdUnrequired].port = TxtCom2
    /\ ~needs_update

\* The required identifiers without an entry on COM2 in the snapshot
Absent(cfg) ==
    {RTCM_MESSAGES[i][1] : i \in
        {j \in DOMAIN RTCM_MESSAGES :
            \/ RTCM_MESSAGES[j][1] \notin DOMAIN cfg.rtcm_messages
            \/ cfg.rtcm_messages[RTCM_MESSAGES[j][1]].port # TxtCom2}}

\* C16: whenever some identifier of the catalogue has no entry on COM2 in the
\* observed snapshot, all other settings matching, check_config_matches
\* reports needs_update = true and its missing set is exactly the set of the
\* absent identifiers.
C16_MissingIdentifiersReported ==
    (Checked /\ SettingsMatch(config[1]) /\ Absent(config[1]) # {})
        => (needs_update /\ missing = Absent(config[1]))

\* RTCM1005 is listed, but on COM1 only, and is the one identifier reported
C16_Witness ==
    /\ Checked
    /\ SettingsMatch(config[1])
    /\ RTCM_MESSAGES[1][1] \in DOMAIN config[1].rtcm_messages
    /\ config[1].rtcm_messages[RTCM_MESSAGES[1][1]].port = TxtCom1
    /\ needs_update
    /\ missing = {<<"R", "T", "C", "M", "1", "0", "0", "5">>}

\* The observed mode, in upper case, has BASE in it
ModeHasBase(cfg) ==
    cfg.mode # None /\ Contains(<<"B", "A", "S", "E">>, Upper(cfg.mode[1]))

\* C17: whenever the observed mode does not contain BASE, the unknown mode
\* (no '#MODE' line parsed) included, check_config_matches reports
\* needs_update = true.
C17_ModeWithoutBaseFlagged ==
    (Checked /\ ~ModeHasBase(config[1])) => needs_update

----------------------------------------------------------------------------
(* Claims about full_configuration (SpecWatchdog, SpecStartup) *)

\* The commands of a reconfiguration, in the order required
ExpectedCommands ==
    <<<<"C", "O", "N", "F", "I", "G", " ", "S", "I", "G", "N", "A", "L", "G",
        "R", "O", "U", "P", " ", "2">>,
      <<"C", "O", "N", "F", "I", "G", " ", "S", "B", "A", "S", " ", "E", "N",
        "A", "B", "L", "E", " ", "A", "U", "T", "O">>,
      <<"M", "O", "D", "E", " ", "B", "A", "S", "E", " ", "1", " ", "T", "I",
        "M", "E", " ", "6", "0", " ", "1">>,
      <<"R", "T", "C", "M", "1", "0", "0", "5", " ", "C", "O", "M", "2", " ",
        "3", "0">>,
      <<"R", "T", "C", "M", "1", "0", "0", "6", " ", "C", "O", "M", "2", " ",
        "3", "0">>,
      <<"R", "T", "C", "M", "1", "0", "3", "3", " ", "C", "O", "M", "2", " ",
        "1", "0">>,
      <<"R", "T", "C", "M", "1", "0", "1", "9", " ", "C", "O", "M", "2", " ",
        "1", "0">>,
      <<"R", "T", "C", "M", "1", "0", "2", "0", " ", "C", "O", "M", "2", " ",
        "1", "0">>,
      <<"R", "T", "C", "M", "1", "0", "4", "2", " ", "C", "O", "M", "2", " ",
        "1", "0">>,
      <<"R", "T", "C", "M", "1", "0", "4", "4", " ", "C", "O", "M", "2", " ",
        "1", "0">>,
      <<"R", "T", "C", "M", "1", "0", "4", "5", " ", "C", "O", "M", "2", " ",
        "1", "0">>,
      <<"R", "T", "C", "M", "1", "0", "4", "6", " ", "C", "O", "M", "2", " ",
        "1", "0">>,
      <<"R", "T", "C", "M", "1", "0", "7", "7", " ", "C", "O", "M", "2", " ",
        "1">>,
      <<"R", "T", "C", "M", "1", "0", "8", "7", " ", "C", "O", "M", "2", " ",
        "1">>,
      <<"R", "T", "C", "M", "1", "0", "9", "7", " ", "C", "O", "M", "2", " ",
        "1">>,
      <<"R", "T", "C", "M", "1", "1", "0", "7", " ", "C", "O", "M", "2", " ",
        "1">>,
      <<"R", "T", "C", "M", "1", "1", "1", "7", " ", "C", "O", "M", "2", " ",
        "1">>,
      <<"R", "T", "C", "M", "1", "1", "2", "7", " ", "C", "O", "M", "2", " ",
        "1">>,
      <<"S", "A", "V", "E", "C", "O", "N", "F", "I", "G">>>>

\* full_configuration has written commands and is over: it returned, or the
\* board reset under it
ReconfigurationOver ==
    /\ uart_log # <<>>
    /\ spc \in {"m_configured", "m_ready", "wdt_reset"}

\* C18: when full_configuration proceeds to reconfigure, the commands written
\* to the control channel are CONFIG SIGNALGROUP 2, CONFIG SBAS ENABLE AUTO,
\* MODE BASE 1 TIME 60 1, one '<id> COM2 <interval>' per catalogue entry in
\* catalogue order and SAVECONFIG last, in this order and each exactly once:
\* what has been written is always a beginning of that list, and it is the
\* whole list once the reconfiguration is over.
C18_CommandSequence ==
    /\ \E n \in 0..Len(ExpectedCommands) :
            uart_log = SubSeq(ExpectedCommands, 1, n)
    /\ ReconfigurationOver => uart_log = ExpectedCommands

\* C19: a reconfiguration in which some command was answered with a failure,
\* or not answered, is told apart by the value full_configuration returns:
\* that value is not the None a run without any failure returns.
C19_FailureSurfaced ==
    (outcome = "COMPLETE" /\ step_failed) => fc_result # "None"

----------------------------------------------------------------------------
(* Claims about get_agc_values (checked under SpecAgc) *)

\* get_agc_values has returned a dictionary
AgcSucceeded == apc = "a_done" /\ agc_values # None

----------------------------------------------------------------------------
(* Claims about _crc24q (checked under SpecCrc) *)

\* CRC-24Q by the reference algorithm: for each byte, XOR it into bits 16..23,
\* then eight times double the value and, where it reaches 2^24, XOR the
\* polynomial; the value is kept below 2^24 after each byte
RECURSIVE RefCrc24q(_)
RefCrc24q(data) ==
    IF data = <<>> THEN 0
    ELSE LET RefShift(c) ==
                 IF 2 * c >= 16777216
                 THEN BitXor(2 * c, 25578747) % 16777216
                 ELSE 2 * c
             start == BitXor(RefCrc24q(SubSeq(data, 1, Len(data) - 1)),
                             data[Len(data)] * 65536)
         IN  RefShift(RefShift(RefShift(RefShift(
                 RefShift(RefShift(RefShift(RefShift(start)))))))) % 16777216

\* C25: _crc24q returns 0 on empty input; after every byte processed the
\* accumulator, which the code masks only at the end, has no bit above bit 23
\* set; the result is in 0..2^24-1 and equals that of the reference CRC-24Q
\* algorithm, which gives 0xCDE703 for the ASCII digits 1 to 9.
C25_CrcMatchesReference ==
    /\ Crc24q(<<>>) = 0
    /\ crc_acc \in 0..16777215
    /\ Crc24q(crc_data) = crc_acc
    /\ Crc24q(crc_data) = RefCrc24q(crc_data)
    /\ Crc24q(<<49, 50, 51, 52, 53, 54, 55, 56, 57>>) = 13494019

\* Bytes have been processed and bit 23 of the accumulator is set: the next
\* shift carries into bit 24
C25_Witness ==
    /\ Len(crc_data) >= 2
    /\ crc_acc >= 8388608
    /\ crc_data[Len(crc_data)] = 255

----------------------------------------------------------------------------
(* Claims about the decoder on long streams (checked under SpecStream) *)

\* C26: in a stream of valid frames in which the length field of one frame is
\* corrupted, at most one frame beyond the corrupted one is lost: once the
\* whole stream has been processed, all the valid frames but one at most
\* have been decoded.
C26_AtMostOneFrameLost ==
    (dpc = "idle" /\ pending = <<>> /\ fed \in ResyncStreams)
        => msg_count >= (MaxFrames - 1) - 1

\* C28: the buffer is capped: whenever no process() call is running, the
\* buffer holds at most 1028 bytes, so that it does not grow without bound
\* over a sequence of calls.
C28_BufferCapped == dpc = "idle" => Len(buffer) <= 1028


(* Claims about the preamble scan (checked under SpecDecoder) *)

\* C27 (as claimed): after process() returns, every leading non-preamble byte
\* has been discarded: the buffer is empty or begins with the preamble byte.
C27_EmptyOrPreamble ==
    dpc = "idle" => buffer = <<>> \/ buffer[1] = Preamble

\* C27 (amended): after process() returns, the buffer is shorter than 3 bytes
\* or begins with the preamble byte: the scan only runs while at least 3
\* bytes are buffered, so up to 2 non-preamble bytes may stay behind.
C27_ShortOrPreamble ==
    dpc = "idle" => Len(buffer) < 3 \/ buffer[1] = Preamble

\* C27 witness: process() has returned with at least 3 bytes fed so far, and
\* one or two bytes that do not start with the preamble are still buffered.
C27_Witness ==
    /\ dpc = "idle"
    /\ ~raised
    /\ Len(fed) >= 3
    /\ buffer # <<>>
    /\ Len(buffer) < 3
    /\ buffer[1] # Preamble


(* Claims about the relay loop's byte count (checked under SpecCaster) *)

\* C29: the forwarded-byte count is cumulative: no step of the relay loop
\* decreases bytes_sent, and a chunk that was sent adds its length to it.
C29_CountCumulative ==
    [][/\ bytes_sent' >= bytes_sent
       /\ (tpc = "count" /\ tpc' # "count")
            => bytes_sent' = bytes_sent + data_len]_vars


(* Claims about the fields of a frame (checked under SpecStream) *)

\* The first 24 bits of a frame's payload as one number, and the payload
\* length its header declares in 10 bits
First24(frame) == frame[4] * 65536 + frame[5] * 256 + frame[6]
Declared(frame) == (frame[2] * 256 + frame[3]) % 1024

\* C30: for a CRC-valid frame the message type is the first 12 bits of the
\* payload, a value in 0..4095; for the reference-station, observation and
\* MSM7 types the station id is the next 12 bits; the frame taken from the
\* buffer is 3 + payload_length + 3 bytes long, payload_length being the low
\* 10 bits of the two bytes after the preamble, the top 6 bits ignored.
C30_FieldsOfAFrame ==
    (dpc = "idle" /\ pending = <<>> /\ fed \in TypedStreams) =>
        LET first == log[1]
        IN  /\ msg_count = 2 /\ error_count = 0 /\ buffer = <<>>
            /\ first.kind = "msg"
            /\ first.msg_type = First24(fed) \div 4096
            /\ first.msg_type \in 0..4095
            /\ first.msg_type \in StationTypes \cup Msm7Types =>
                  first.field = "station" /\ first.value = First24(fed) % 4096
            /\ first.msg_len = Declared(fed)
            /\ Len(fed) = (3 + Declared(fed) + 3) + Len(Frame1005)
            /\ log[2].msg_type = 1005 /\ log[2].value = 291

\* C30 witness: an MSM7 frame with its six reserved header bits set has been
\* decoded, and so has the frame behind it.
C30_Witness ==
    /\ dpc = "idle"
    /\ pending = <<>>
    /\ fed \in TypedStreams
    /\ fed[2] >= 252
    /\ msg_count = 2
    /\ log[1].msg_type = 1127
    /\ log[1].value = 4095


(* Claims about get_agc_status (checked under SpecStatus) *)

\* The class get_agc_status gave to the reading of each band agrees with
\* the rule bad(value)
ClassifiedWith(bad(_)) ==
    \A freq \in {"L1", "L2", "L5"} :
        LET value == agc_values[1][freq]
            class == agc_status[1][freq]
        IN  /\ class \in {"good", "bad", "unknown"}
            /\ class = "good" <=> (0 <= value /\ value < good_max)
            /\ class = "bad" <=> bad(value)
            /\ class = "unknown" <=> value = 0 - 1

ParityXor(text) ==
    LET odd(k) == Cardinality({i \in 1..Len(text) :
                                 (Ord(text[i]) \div 2^k) % 2 = 1}) % 2
    IN  odd(0) + 2 * odd(1) + 4 * odd(2) + 8 * odd(3) + 16 * odd(4)
          + 32 * odd(5) + 64 * odd(6) + 128 * odd(7)

\* The code of the uppercase hexadecimal digit of d, d in 0..15
HexCode(d) == IF d < 10 THEN 48 + d ELSE 55 + d

CallReturned == lpc \in {"ret_idle", "ret_end"}

\* It returned from inside the loop, more than 500 ms after the last bytes
\* and before the absolute timeout
ReturnedOnSilence ==
    /\ lpc = "ret_idle"
    /\ elapsed < TimeoutMs(call[1])
    /\ elapsed - last_data_time[1] > IdleMs
    /\ elapsed - last_data_time[1] <= IdleMs + SleepMs

\* It returned at the first test of the clock at or after the absolute
\* timeout
ReturnedOnTimeout ==
    /\ lpc = "ret_end"
    /\ elapsed >= TimeoutMs(call[1])
    /\ elapsed < TimeoutMs(call[1]) + SleepMs

\* What both statements of C23 share: None exactly when no byte arrived, and
\* then at the absolute timeout; else the whole accumulated response; and
\* no call still waiting once the silence has lasted
NoneOrAccumulated ==
    /\ CallReturned =>
         /\ resp_returned = None <=> response_len = 0
         /\ resp_returned = None => ReturnedOnTimeout
         /\ resp_returned # None => resp_returned = Some(response_len)
    /\ (lpc = "loop" /\ response_len > 0) =>
         elapsed - last_data_time[1] <= IdleMs + SleepMs

\* C23 (as claimed): send_query and send_command return None exactly when no
\* byte arrived before the absolute timeout (5 s, 2 s); when a byte arrived
\* they return the accumulated response, once 500 ms have passed with no new
\* byte or when the absolute timeout elapses, whichever comes first.
C23_SilenceOrTimeout ==
    /\ NoneOrAccumulated
    /\ (CallReturned /\ resp_returned # None) =>
         ReturnedOnSilence \/ ReturnedOnTimeout

\* C23 (amended): as claimed, except that send_query also returns the
\* accumulated response as soon as it holds 4096 bytes or more.
C23_SilenceTimeoutOrCap ==
    /\ NoneOrAccumulated
    /\ (CallReturned /\ resp_returned # None) =>
         \/ ReturnedOnSilence
         \/ ReturnedOnTimeout
         \/ /\ call[1] = "query"
            /\ lpc = "ret_end"
            /\ response_len >= MaxResponseSize
            /\ elapsed < QueryTimeoutMs

\* C23 witness: a command has returned its 257 bytes after a silence, well
\* before its timeout.
C23_Witness ==
    /\ call[1] = "command"
    /\ ReturnedOnSilence
    /\ resp_returned = Some(257)
    /\ elapsed <= 1010

\* C24: the response send_query returns is never longer than 4096 bytes,
\* whatever the sizes of the chunks the link delivers.
C24_ResponseCapped ==
    (CallReturned /\ call[1] = "query" /\ resp_returned # None) =>
        resp_returned[1] <= MaxResponseSize


(* Claims about process() on short frames (checked under SpecDecoder) *)

\* C32: process() returns normally for every input: it never raises, and once
\* it has returned no complete frame is left at the head of the buffer; frames whose declared payload length is 0, 1 or 2 are
\* taken from the buffer like any other.
C32_ProcessReturnsNormally ==
    /\ ~raised
    /\ dpc = "idle" =>
         ~(/\ Len(buffer) >= 6
           /\ buffer[1] = Preamble
           /\ Len(buffer) >= FrameLen(buffer))


(* Claims about the UNILOGLIST answer (checked under SpecListing) *)

\* C34: a required identifier that the UNILOGLIST answer lists on COM2 is
\* never reported missing, whatever other port lists it too and whatever the
\* order of the lines.
C34_ListedOnCom2NotMissing ==
    kpc = "checked" =>
        \A i \in DOMAIN listed :
            (listed[i].port = TxtCom2 /\ listed[i].msg_type \in RequiredRtcm)
                => listed[i].msg_type \notin missing_com2


(* Claims about the client's sockets (checked under SpecCaster) *)

\* C35: the client holds at most one open transport: no socket it opened
\* stays open once self.socket refers to another one or to None, across a
\* failed send and the reconnect after it included.
C35_AtMostOneOpen == leaked = 0

\* C36: in every state of the two threads, connected = True implies that the
\* socket is not None.
C36_ConnectedHasSocket == connected => socket # "None"


(* Claims about the chunks of the relay loop (checked under SpecCaster) *)

\* C37: each chunk read from the data UART is passed to send_rtcm exactly
\* once: send_rtcm is entered only right after a read that returned data,
\* every such read enters it, socket.send runs only inside that one call, and
\* after a failed send and the reconnect the loop goes on to its next pass
\* without sending the chunk again.
C37_ChunkSentOnce ==
    /\ [][(tpc' = "s_check" /\ tpc # "s_check") => tpc = "uart"]_vars
    /\ [][(tpc = "uart" /\ tpc' # tpc) => tpc' \in {"s_check", "sleep10"}]_vars
    /\ [][(tpc' = "s_send" /\ tpc # "s_send") => tpc = "s_check"]_vars
    /\ [][(tpc = "s_send" /\ tpc' # tpc) => tpc' \in {"count", "c_socket"}]_vars
    /\ [][(tpc = "ret" /\ where = "reconn" /\ tpc' # tpc)
            => tpc' \in {"sleep10", "sleep60"}]_vars
    /\ [][(tpc \in {"count", "sleep10"} /\ tpc' # tpc)
            => tpc' \in {"sleep10", "loop"}]_vars

\* C37 witness: a send failed, the reconnect succeeded, and the loop has read
\* the next chunk and entered send_rtcm with it.
C37_Witness == tpc = "s_check" /\ where = "reconn" /\ result = "True" /\ NoStop


(* Claims about the watchdog (checked under SpecWatchdog) *)

\* C38: the watchdog never expires: fewer than 8000 ms of sleeps elapse
\* between its creation and the first wdt.feed() and between two feeds, and
\* the board is never reset by it.
C38_WatchdogNeverExpires == wdt_age < WdtTimeoutMs /\ spc # "wdt_reset"


(* Claims about the order of startup (checked under SpecStartup) *)

\* C33: whenever main's check_config_matches reported needs_update = True,
\* the whole command sequence, signal group to SAVECONFIG, has been written
\* once main reports the receiver as configured and goes on to start the
\* relay thread.
C33_ReconfiguredBeforeRelay ==
    (needs_update /\ spc \in {"m_configured", "m_ready"})
        => uart_log = ExpectedCommands


(* Claims about main's workflow (checked under SpecWorkflow) *)

\* One of the four NTRIP settings is missing from the configuration
SettingMissing ==
    \E k \in {"ntrip_server", "ntrip_mountpoint", "ntrip_user",
               "ntrip_password"} :
        ntrip_conf[k] = None \/ ntrip_conf[k] = Some(<<>>)

====
